---- MODULE Spec2Model ----
(***************************************************************************)
(* Tradyxa RubiX / Omega Vault: the training and inference pipeline, the   *)
(* feature builder and the closed-form risk formulas, as state machines.   *)
(*                                                                         *)
(*   SpecPipeline  train_all_models.main and infer.main sharing models/    *)
(*   SpecKelly     kelly_regime_adjusted and kelly_criterion               *)
(*   SpecVaR       calculate_var_cvar                                      *)
(*   SpecFeatures  build_features and the label derivations of the         *)
(*                 supervised models over a growing price history          *)
(*   SpecTiles     what run_inference and the dashboard derive from the    *)
(*                 members' predictions                                    *)
(*   SpecCron      the scheduled starts of the inference workflow          *)
(*   SpecStreak    the streak columns of build_features on short histories *)
(*   SpecDashboard App's data loads (refreshData, getMarketDataAsync)      *)
(*   SpecDisclaimer App's disclaimer modal and its 48-hour acknowledgement *)
(*   SpecWorker    the service worker's install, activate and fetch        *)
(*                 handlers                                                *)
(***************************************************************************)
EXTENDS Integers, Sequences, FiniteSets, TLC

VARIABLES
    \* ---- models/*.pkl and client/public/data/omega_vault.json
    modelsDir,      \* file name -> [run, complete]; run = 0: no such file
    snapshot,       \* omega_vault.json: NoSnapshot or the results written
    \* ---- train_all_models.main
    trainPc,        \* position of the training process
    trainStep,      \* index in TrainOrder of the model being trained
    trainRun,       \* number of the current (or last) training run
    trainSamples,   \* len(features_df) of the current (or last) training run
    \* ---- infer.main
    inferPc,        \* position of the inference process
    inferStep,      \* index in TrainOrder (loading) or PredictOrder (predicting)
    inferRun,       \* number of the current (or last) inference run
    models,         \* the dict load_all_models is filling: file name -> run loaded
    results,        \* results['predictions']: member -> "none" | "ok" | "failed"
    inferError      \* the exception that ended the inference run, or "none"

VARIABLES
    \* ---- the risk formulas
    kellyCall,      \* the last Kelly call: its function, arguments and result
    returns,        \* the trailing return sample, value -> number of occurrences
    varCall         \* the last calculate_var_cvar call: confidence and result

VARIABLES
    \* ---- the feature builder and the label derivations
    nifty_df,       \* OHLCV history: a record of columns, one entry per trading day
    vix_df,         \* India VIX closes: date -> level, for the dates that have one
    features_df,    \* what build_features returned last: a sequence of rows
    trainFrame,     \* the (date, X, y) rows the last train_* function fitted on
    featPc          \* "data" | "built" | "labelled"

VARIABLES
    \* ---- what the inference run and the dashboard compute from predictions
    tile,           \* the last computation: its name, inputs and output
    tileStep        \* index in ComputeOrder of the computation that comes next

VARIABLES
    \* ---- the schedule of daily_inference.yml
    now,            \* the minute of the week, UTC; 0 is Sunday 00:00
    lastStart,      \* the minute of the week the last scheduled run started, or -1
    prevStart       \* the start before that one, or -1

VARIABLES
    \* ---- App (the dashboard's data)
    index,          \* useState: the selected index
    data,           \* useState: NullData while loading, else the state shown
    loads,          \* the refreshData calls whose await has not returned
    refreshes       \* number of refreshData calls made since the page loaded

VARIABLES
    \* ---- App (the disclaimer) and localStorage
    wallClock,      \* new Date().getTime(), in hours
    storedAck,      \* localStorage['rubix_disclaimer_ack']: NoItem or a string
    disclaimerOpen, \* useState: whether the disclaimer modal is open
    appLoaded       \* whether the mount effect of this page load has run

VARIABLES
    \* ---- the service worker and CacheStorage
    swPhase,        \* "parsed" | "installing" | "installed" | "activating" |
                    \* "activated" | "redundant"
    cacheKeys,      \* caches.keys(): the names of the caches that exist
    cacheEntries,   \* cache name -> the (url, response) pairs it holds
    pendingDeletes, \* activate: the names caches.keys() gave, not yet visited
    fetchEvent      \* the fetch event being handled, or NoEvent

pipelineVars ==
    <<modelsDir, snapshot, trainPc, trainStep, trainRun, trainSamples,
      inferPc, inferStep, inferRun, models, results, inferError>>

formulaVars == <<kellyCall, returns, varCall>>

featVars == <<nifty_df, vix_df, features_df, trainFrame, featPc>>

tileVars == <<tile, tileStep>>

cronVars == <<now, lastStart, prevStart>>

dashVars == <<index, data, loads, refreshes>>

ackVars == <<wallClock, storedAck, disclaimerOpen, appLoaded>>

swVars == <<swPhase, cacheKeys, cacheEntries, pendingDeletes, fetchEvent>>

clientVars == <<dashVars, ackVars, swVars>>

outsidePipeline == <<formulaVars, featVars, tileVars, cronVars, clientVars>>

outsideFormulas == <<pipelineVars, featVars, tileVars, cronVars, clientVars>>

outsideFeatures == <<pipelineVars, formulaVars, tileVars, cronVars, clientVars>>

outsideTiles == <<pipelineVars, formulaVars, featVars, cronVars, clientVars>>

outsideCron == <<pipelineVars, formulaVars, featVars, tileVars, clientVars>>

serverVars == <<pipelineVars, formulaVars, featVars, tileVars, cronVars>>

outsideDash == <<serverVars, ackVars, swVars>>

outsideAck == <<serverVars, dashVars, swVars>>

outsideWorker == <<serverVars, dashVars, ackVars>>

vars == <<serverVars, clientVars>>

----------------------------------------------------------------------------
(* Bounds *)

MaxTrainRuns == 2
MaxInferRuns == 2
WinRateSteps == 10
MaxAvg == 3
MaxSamples == 31
HistoryDays == 262
MaxNewDays == 2
MaxSeed == 1
MaxStreak == 8
ProbabilitySteps == 10
MaxVolMean == 3
MaxVix == 26
MomentumProbSteps == 200
MaxRefreshes == 2
MaxHours == 100
MaxFetches == 3
MaxShortDays == 6

----------------------------------------------------------------------------
(* The five bundles and the five ensemble members *)

\* train_all_models.main trains, and load_all_models loads, in this order.
TrainOrder ==
    <<"hmm_regime", "rf_reversal", "xgb_momentum", "qr_range", "gbm_divergence">>

BundleNames == {TrainOrder[i] : i \in 1..Len(TrainOrder)}

\* The members of the ensemble, as the snapshot names them.
Members == {"regime", "reversal", "momentum", "range", "divergence"}

\* run_inference predicts these, in this order.
PredictOrder == <<"regime", "reversal", "momentum", "range">>

NoBundle == [run |-> 0, complete |-> FALSE]

NoSnapshot == [run |-> 0, predictions |-> [m \in Members |-> "none"]]

\* A load that returns whatever the path holds, even nothing.
LoadableAlways(file) == TRUE

\* joblib.load: raises unless the file exists and holds a whole pickle.
Loadable(file) == file.run # 0 /\ file.complete

----------------------------------------------------------------------------
(* train_all_models.main *)

TrainIdle == trainPc \in {"idle", "done", "failed"}

\* A scheduled or manual start of the weekly training script.
\* The numbers of rows build_features may leave to train on.
SampleCounts == {499, 500}

TrainStart ==
    /\ TrainIdle
    /\ trainRun < MaxTrainRuns
    /\ trainRun' = trainRun + 1
    /\ trainPc' = "prepare"
    /\ trainStep' = 0
    /\ UNCHANGED <<modelsDir, snapshot, inferPc, inferStep, inferRun, models,
                   results, inferError>>
    /\ UNCHANGED trainSamples
    /\ UNCHANGED outsidePipeline

\* Steps 1 and 2: yf.download and build_features. The number of rows is
\* printed and training goes on whatever it is.
TrainPrepare ==
    /\ trainPc = "prepare"
    /\ trainPc' = "fit"
    /\ trainStep' = 1
    /\ \E n \in SampleCounts : trainSamples' = n
    /\ UNCHANGED <<modelsDir, snapshot, trainRun, inferPc, inferStep, inferRun,
                   models, results, inferError>>
    /\ UNCHANGED outsidePipeline

\* model.fit of the train_* function at trainStep returns.
TrainFitOk ==
    /\ trainPc = "fit"
    /\ trainPc' = "dump"
    /\ UNCHANGED <<modelsDir, snapshot, trainStep, trainRun, inferPc, inferStep,
                   inferRun, models, results, inferError>>
    /\ UNCHANGED trainSamples
    /\ UNCHANGED outsidePipeline

\* model.fit raises: nothing catches it, the script ends.
TrainFitFails ==
    /\ trainPc = "fit"
    /\ trainPc' = "failed"
    /\ UNCHANGED <<modelsDir, snapshot, trainStep, trainRun, inferPc, inferStep,
                   inferRun, models, results, inferError>>
    /\ UNCHANGED trainSamples
    /\ UNCHANGED outsidePipeline

\* joblib.dump opens models/<name>.pkl for writing: the old content is gone
\* and the new one is not yet whole.
TrainDumpOpen ==
    /\ trainPc = "dump"
    /\ modelsDir' = [modelsDir EXCEPT ![TrainOrder[trainStep]] =
                        [run |-> trainRun, complete |-> FALSE]]
    /\ trainPc' = "writing"
    /\ UNCHANGED <<snapshot, trainStep, trainRun, inferPc, inferStep, inferRun,
                   models, results, inferError>>
    /\ UNCHANGED trainSamples
    /\ UNCHANGED outsidePipeline

\* joblib.dump returns: the file holds the whole bundle of this run.
TrainDumpClose ==
    /\ trainPc = "writing"
    /\ modelsDir' = [modelsDir EXCEPT ![TrainOrder[trainStep]] =
                        [run |-> trainRun, complete |-> TRUE]]
    /\ IF trainStep = Len(TrainOrder)
          THEN trainPc' = "done" /\ trainStep' = trainStep
          ELSE trainPc' = "fit" /\ trainStep' = trainStep + 1
    /\ UNCHANGED <<snapshot, trainRun, inferPc, inferStep, inferRun, models,
                   results, inferError>>
    /\ UNCHANGED trainSamples
    /\ UNCHANGED outsidePipeline

\* joblib.dump raises part-way (disk full, killed): the file stays as it is.
TrainDumpFails ==
    /\ trainPc = "writing"
    /\ trainPc' = "failed"
    /\ UNCHANGED <<modelsDir, snapshot, trainStep, trainRun, inferPc, inferStep,
                   inferRun, models, results, inferError>>
    /\ UNCHANGED trainSamples
    /\ UNCHANGED outsidePipeline

----------------------------------------------------------------------------
(* infer.main *)

InferIdle == inferPc \in {"idle", "done", "aborted"}

\* A scheduled start of the inference script.
InferStart ==
    /\ InferIdle
    /\ inferRun < MaxInferRuns
    /\ inferRun' = inferRun + 1
    /\ inferPc' = "load"
    /\ inferStep' = 1
    /\ models' = [b \in BundleNames |-> 0]
    /\ results' = [m \in Members |-> "none"]
    /\ inferError' = "none"
    /\ UNCHANGED <<modelsDir, snapshot, trainPc, trainStep, trainRun>>
    /\ UNCHANGED trainSamples
    /\ UNCHANGED outsidePipeline

\* load_all_models: one joblib.load, in the order of the dict literal.  A
\* file that is missing or not whole raises, and nothing catches it.
InferLoad ==
    /\ inferPc = "load"
    /\ LET name == TrainOrder[inferStep]
       IN  IF Loadable(modelsDir[name])
              THEN /\ models' = [models EXCEPT ![name] = modelsDir[name].run]
                   /\ inferError' = inferError
                   /\ IF inferStep = Len(TrainOrder)
                         THEN inferPc' = "prepare" /\ inferStep' = 0
                         ELSE inferPc' = "load" /\ inferStep' = inferStep + 1
              ELSE /\ inferPc' = "aborted"
                   /\ inferError' = "load"
                   /\ UNCHANGED <<models, inferStep>>
    /\ UNCHANGED <<modelsDir, snapshot, trainPc, trainStep, trainRun, inferRun,
                   results>>
    /\ UNCHANGED trainSamples
    /\ UNCHANGED outsidePipeline

\* fetch_live_data and build_features.
InferPrepare ==
    /\ inferPc = "prepare"
    /\ inferPc' = "predict"
    /\ inferStep' = 1
    /\ UNCHANGED <<modelsDir, snapshot, trainPc, trainStep, trainRun, inferRun,
                   models, results, inferError>>
    /\ UNCHANGED trainSamples
    /\ UNCHANGED outsidePipeline

\* run_inference: the prediction of the member at inferStep returns.
InferPredictOk ==
    /\ inferPc = "predict"
    /\ results' = [results EXCEPT ![PredictOrder[inferStep]] = "ok"]
    /\ IF inferStep = Len(PredictOrder)
          THEN inferPc' = "save" /\ inferStep' = 0
          ELSE inferPc' = "predict" /\ inferStep' = inferStep + 1
    /\ UNCHANGED <<modelsDir, snapshot, trainPc, trainStep, trainRun, inferRun,
                   models, inferError>>
    /\ UNCHANGED trainSamples
    /\ UNCHANGED outsidePipeline

\* run_inference: the prediction raises (a feature column is missing, the
\* model rejects the row).  run_inference has no handler and neither has
\* main: the script ends.
InferPredictFails ==
    /\ inferPc = "predict"
    /\ results' = [results EXCEPT ![PredictOrder[inferStep]] = "failed"]
    /\ inferPc' = "aborted"
    /\ inferError' = "predict"
    /\ UNCHANGED <<modelsDir, snapshot, trainPc, trainStep, trainRun, inferStep,
                   inferRun, models>>
    /\ UNCHANGED trainSamples
    /\ UNCHANGED outsidePipeline

\* main: json.dump(results) to omega_vault.json.
InferSave ==
    /\ inferPc = "save"
    /\ snapshot' = [run |-> inferRun, predictions |-> results]
    /\ inferPc' = "done"
    /\ UNCHANGED <<modelsDir, trainPc, trainStep, trainRun, inferStep, inferRun,
                   models, results, inferError>>
    /\ UNCHANGED trainSamples
    /\ UNCHANGED outsidePipeline

----------------------------------------------------------------------------
(* The pipeline: the two scripts run as separate processes over one models/ *)

InitPipeline ==
    /\ modelsDir = [b \in BundleNames |-> NoBundle]
    /\ snapshot = NoSnapshot
    /\ trainPc = "idle"
    /\ trainStep = 0
    /\ trainRun = 0
    /\ trainSamples = 0
    /\ inferPc = "idle"
    /\ inferStep = 0
    /\ inferRun = 0
    /\ models = [b \in BundleNames |-> 0]
    /\ results = [m \in Members |-> "none"]
    /\ inferError = "none"

NextPipeline ==
    \/ TrainStart
    \/ TrainPrepare
    \/ TrainFitOk
    \/ TrainFitFails
    \/ TrainDumpOpen
    \/ TrainDumpClose
    \/ TrainDumpFails
    \/ InferStart
    \/ InferLoad
    \/ InferPrepare
    \/ InferPredictOk
    \/ InferPredictFails
    \/ InferSave

----------------------------------------------------------------------------
(* Exact arithmetic: a number is a fraction <<numerator, denominator>> with *)
(* a positive denominator, kept in lowest terms.                            *)

RECURSIVE Gcd(_, _)
Gcd(a, b) == IF b = 0 THEN a ELSE Gcd(b, a % b)

IntAbs(x) == IF x < 0 THEN -x ELSE x

Rat(n, d) ==
    LET s == IF d < 0 THEN -1 ELSE 1
        g == Gcd(IntAbs(n), IntAbs(d))
    IN  <<(s * n) \div g, (s * d) \div g>>

RatInt(i) == <<i, 1>>
RatAdd(a, b) == Rat(a[1] * b[2] + b[1] * a[2], a[2] * b[2])
RatSub(a, b) == Rat(a[1] * b[2] - b[1] * a[2], a[2] * b[2])
RatMul(a, b) == Rat(a[1] * b[1], a[2] * b[2])
RatDiv(a, b) == Rat(a[1] * b[2], a[2] * b[1])
RatAbs(a) == <<IntAbs(a[1]), a[2]>>
RatLe(a, b) == a[1] * b[2] <= b[1] * a[2]
RatLt(a, b) == a[1] * b[2] < b[1] * a[2]
RatMin(a, b) == IF RatLe(a, b) THEN a ELSE b
RatMax(a, b) == IF RatLe(b, a) THEN a ELSE b

\* np.clip(x, lo, hi)
Clip(x, lo, hi) == RatMin(RatMax(x, lo), hi)

----------------------------------------------------------------------------
(* Kelly position sizing *)

Regimes == {"TRENDING", "MEAN_REVERTING", "CHAOTIC"}

KellyCap == Rat(25, 100)
KellyFloor == Rat(5, 100)
QuarterKelly == Rat(25, 100)
ChaoticFactor == Rat(5, 10)
MeanRevertingFactor == Rat(8, 10)

\* b = avg_win / abs(avg_loss) if avg_loss != 0 else 1
WinLossRatio(avg_win, avg_loss) ==
    IF avg_loss[1] # 0 THEN RatDiv(avg_win, RatAbs(avg_loss)) ELSE RatInt(1)

\* (p * b - q) / b, with q = 1 - p
KellyFraction(win_rate, b) ==
    RatDiv(RatSub(RatMul(win_rate, b), RatSub(RatInt(1), win_rate)), b)

\* The two factors attached to the wrong regimes.
RegimeAdjustSwapped(kelly, regime) ==
    IF regime = "CHAOTIC" THEN RatMul(kelly, MeanRevertingFactor)
    ELSE IF regime = "MEAN_REVERTING" THEN RatMul(kelly, ChaoticFactor)
    ELSE kelly

\* Regime adjustment (Fix #4): the two branches of the if / elif.
RegimeAdjust(kelly, regime) ==
    IF regime = "CHAOTIC" THEN RatMul(kelly, ChaoticFactor)
    ELSE IF regime = "MEAN_REVERTING" THEN RatMul(kelly, MeanRevertingFactor)
    ELSE kelly

\* The return without its cap and floor.
CapKellyMissing(kelly) == kelly

\* return max(0, min(kelly, 0.25))
CapKelly(kelly) == RatMax(RatInt(0), RatMin(kelly, KellyCap))

kelly_regime_adjusted(win_rate, regime, avg_win, avg_loss) ==
    LET b == WinLossRatio(avg_win, avg_loss)
        kelly == KellyFraction(win_rate, b)
    IN  CapKelly(RegimeAdjust(kelly, regime))

kelly_criterion(win_rate, avg_win, avg_loss) ==
    IF avg_loss[1] = 0
       THEN KellyCap
       ELSE LET b == RatDiv(avg_win, RatAbs(avg_loss))
                f_star == KellyFraction(win_rate, b)
            IN  Clip(RatMul(f_star, QuarterKelly), KellyFloor, KellyCap)

NoKellyCall ==
    [fn |-> "none", win_rate |-> RatInt(0), regime |-> "TRENDING",
     avg_win |-> RatInt(1), avg_loss |-> RatInt(0), out |-> RatInt(0)]

\* The arguments the calls are made with: a win rate in [0, 1], an average
\* win > 0, an average loss given as a magnitude or as a negative return.
WinRates == {Rat(k, WinRateSteps) : k \in 0..WinRateSteps}
AvgWins == {RatInt(w) : w \in 1..MaxAvg}
AvgLosses == {RatInt(l) : l \in (0 - MaxAvg)..MaxAvg}

KellyRegimeAdjustedCall ==
    /\ \E p \in WinRates, r \in Regimes, w \in AvgWins, l \in AvgLosses :
          kellyCall' = [fn |-> "kelly_regime_adjusted", win_rate |-> p,
                        regime |-> r, avg_win |-> w, avg_loss |-> l,
                        out |-> kelly_regime_adjusted(p, r, w, l)]
    /\ UNCHANGED <<returns, varCall>>
    /\ UNCHANGED outsideFormulas

KellyCriterionCall ==
    /\ \E p \in WinRates, w \in AvgWins, l \in AvgLosses :
          kellyCall' = [fn |-> "kelly_criterion", win_rate |-> p,
                        regime |-> "TRENDING", avg_win |-> w, avg_loss |-> l,
                        out |-> kelly_criterion(p, w, l)]
    /\ UNCHANGED <<returns, varCall>>
    /\ UNCHANGED outsideFormulas


----------------------------------------------------------------------------
(* Historical VaR / CVaR *)

\* The values a daily return takes here, in percent.
ReturnValues == {-3, -1, 2}

EmptySample == [v \in ReturnValues |-> 0]

RECURSIVE BagSize(_, _)
BagSize(bag, vs) ==
    IF vs = {} THEN 0
    ELSE LET v == CHOOSE x \in vs : TRUE
         IN  bag[v] + BagSize(bag, vs \ {v})

\* len(returns)
SampleSize(bag) == BagSize(bag, ReturnValues)

\* The number of sample values <= x, and their sum.
CountAtMost(bag, x) == BagSize(bag, {v \in ReturnValues : RatLe(RatInt(v), x)})

RECURSIVE BagSum(_, _)
BagSum(bag, vs) ==
    IF vs = {} THEN 0
    ELSE LET v == CHOOSE x \in vs : TRUE
         IN  v * bag[v] + BagSum(bag, vs \ {v})

\* sorted(returns)[i], i counted from 0
SortedAt(bag, i) ==
    CHOOSE v \in ReturnValues :
        /\ bag[v] > 0
        /\ BagSize(bag, {u \in ReturnValues : u < v}) <= i
        /\ i < BagSize(bag, {u \in ReturnValues : u <= v})

\* np.percentile(returns, q), linear interpolation between the two nearest
\* order statistics: q is a fraction in [0, 100].
Percentile(bag, q) ==
    LET n == SampleSize(bag)
        pos == RatMul(RatDiv(q, RatInt(100)), RatInt(n - 1))
        lo == pos[1] \div pos[2]
        hi == IF lo + 1 < n THEN lo + 1 ELSE lo
        frac == RatSub(pos, RatInt(lo))
        a == SortedAt(bag, lo)
        b == SortedAt(bag, hi)
    IN  RatAdd(RatInt(a), RatMul(frac, RatInt(b - a)))

\* The mean of the wrong tail: returns[returns >= var].mean()
TailMeanAbove(bag, var) ==
    LET tail == {v \in ReturnValues : RatLe(var, RatInt(v))}
    IN  Rat(BagSum(bag, tail), BagSize(bag, tail))

\* returns[returns <= var].mean()
TailMean(bag, var) ==
    LET tail == {v \in ReturnValues : RatLe(RatInt(v), var)}
    IN  Rat(BagSum(bag, tail), BagSize(bag, tail))

calculate_var_cvar(bag, confidence) ==
    LET var == Percentile(bag, RatMul(RatSub(RatInt(1), confidence), RatInt(100)))
        cvar == TailMean(bag, var)
    IN  [var |-> var, cvar |-> cvar]

NoVarCall ==
    [fn |-> "none", confidence |-> RatInt(0), n |-> 0,
     var |-> RatInt(0), cvar |-> RatInt(0)]

\* The confidence levels the calls are made with, 0 and 1 included.
Confidences == {RatInt(0), Rat(1, 2), Rat(90, 100), Rat(95, 100), Rat(99, 100), RatInt(1)}

\* One more daily return enters the trailing sample.
RecordReturn ==
    /\ SampleSize(returns) < MaxSamples
    /\ \E v \in ReturnValues : returns' = [returns EXCEPT ![v] = @ + 1]
    /\ varCall' = NoVarCall
    /\ UNCHANGED kellyCall
    /\ UNCHANGED outsideFormulas

CalculateVarCvar ==
    /\ SampleSize(returns) >= 1
    /\ \E c \in Confidences :
          LET r == calculate_var_cvar(returns, c)
          IN  varCall' = [fn |-> "calculate_var_cvar", confidence |-> c,
                          n |-> SampleSize(returns), var |-> r.var, cvar |-> r.cvar]
    /\ UNCHANGED <<returns, kellyCall>>
    /\ UNCHANGED outsideFormulas

----------------------------------------------------------------------------
(* Data frames.  A cell of a derived column is NaN or a tuple holding its   *)
(* value; a statistic of a window is held as the window it is computed      *)
(* from, under the statistic's name.                                        *)

NaN == <<>>

Num(x) == <<x>>

Stat(name, args) == <<name, args>>

\* len(df)
Rows(df) == Len(df.Close)

\* col.shift(k) at row i of a raw column
Shift(col, k, i) == IF i - k \in 1..Len(col) THEN Num(col[i - k]) ELSE NaN

\* col.pct_change(k) at row i of a raw column
PctChange(col, k, i) ==
    IF i - k \in 1..Len(col) /\ i \in 1..Len(col)
       THEN Rat(col[i] - col[i - k], col[i - k])
       ELSE NaN

\* col.rolling(w) at row i: the w cells ending at i, NaN unless all w exist
Rolling(win, w, i) ==
    IF i < w THEN NaN
    ELSE IF \E j \in 1..w : win[j] = NaN THEN NaN ELSE win

\* The same over a raw column, which has no NaN.
RollingRaw(col, w, i) == IF i < w THEN NaN ELSE SubSeq(col, i - w + 1, i)

\* col.ewm(span).mean() at row i: a weighted mean of every row up to i
Ewm(col, span, i) == Stat("ewm", <<span, SubSeq(col, 1, i)>>)

\* np.sign
Sign(x) == IF x > 0 THEN 1 ELSE IF x < 0 THEN -1 ELSE 0

\* The frame as it was on date `date`: every entry dated later removed.
TruncateFrame(df, i) == [c \in DOMAIN df |-> SubSeq(df[c], 1, i)]

TruncateSeries(series, date) ==
    [d \in {x \in DOMAIN series : x <= date} |-> series[d]]

----------------------------------------------------------------------------
(* The history build_features is run on *)

\* The backfilled history: HistoryDays consecutive trading days, each with
\* a VIX close; `s` selects one of the histories.
BaseClose(i, s) == 1000 + 6 * ((i * i + s) % 7) - 5 * (i % 4)

BaseFrame(s) ==
    [Date   |-> [i \in 1..HistoryDays |-> i],
     Open   |-> [i \in 1..HistoryDays |-> BaseClose(i, s) - 1 + (i % 3)],
     High   |-> [i \in 1..HistoryDays |-> BaseClose(i, s) + 2 + (i % 2)],
     Low    |-> [i \in 1..HistoryDays |-> BaseClose(i, s) - 2 - ((i + s) % 3)],
     Close  |-> [i \in 1..HistoryDays |-> BaseClose(i, s)],
     Volume |-> [i \in 1..HistoryDays |-> 10 + ((i + s) % 5)]]

BaseVix(s) == [d \in 1..HistoryDays |-> 15 + ((d + 2 * s) % 4)]

\* The last date any series has an entry for.
LastDate ==
    LET dates == DOMAIN vix_df \cup {nifty_df.Date[Rows(nifty_df)]}
    IN  CHOOSE d \in dates : \A e \in dates : e <= d

NewDays == LastDate - HistoryDays

\* A new trading day: its bar, given the move of the close and whether the
\* VIX series has a close for the day.
AppendBar ==
    /\ featPc = "data"
    /\ NewDays < MaxNewDays
    /\ \E move \in {-12, 12}, reading \in {NaN, Num(17)} :
          LET prev == nifty_df.Close[Rows(nifty_df)]
              c == prev + move
              date == LastDate + 1
          IN  /\ nifty_df' =
                    [Date   |-> Append(nifty_df.Date, date),
                     Open   |-> Append(nifty_df.Open, prev),
                     High   |-> Append(nifty_df.High, (IF c > prev THEN c ELSE prev) + 2),
                     Low    |-> Append(nifty_df.Low, (IF c < prev THEN c ELSE prev) - 3),
                     Close  |-> Append(nifty_df.Close, c),
                     Volume |-> Append(nifty_df.Volume, 12 + Sign(move))]
              /\ vix_df' = IF reading = NaN THEN vix_df
                                             ELSE vix_df @@ (date :> reading[1])
    /\ UNCHANGED <<features_df, trainFrame, featPc>>
    /\ UNCHANGED outsideFeatures

\* A date on which the VIX series has a close and the index did not trade.
AppendVixOnly ==
    /\ featPc = "data"
    /\ NewDays < MaxNewDays
    /\ vix_df' = vix_df @@ ((LastDate + 1) :> 19)
    /\ UNCHANGED <<nifty_df, features_df, trainFrame, featPc>>
    /\ UNCHANGED outsideFeatures

----------------------------------------------------------------------------
(* build_features: the columns, each at row i of df *)

\* The return of the day after, df['Close'].pct_change(1).shift(-1): what
\* return_1d must not be.
return_1d_lookahead(df, i) ==
    IF i + 1 \in 1..Rows(df)
       THEN Rat(df.Close[i + 1] - df.Close[i], df.Close[i])
       ELSE NaN

\* df['Close'].pct_change(1), pct_change(5), pct_change(20)
return_1d(df, i) == PctChange(df.Close, 1, i)
return_5d(df, i) == PctChange(df.Close, 5, i)
return_20d(df, i) == PctChange(df.Close, 20, i)

\* np.log(df['Close'] / df['Close'].shift(1))
log_return(df, i) ==
    IF Shift(df.Close, 1, i) = NaN THEN NaN
    ELSE Stat("log", Rat(df.Close[i], df.Close[i - 1]))

\* df['return_1d'].rolling(w).std() * np.sqrt(252)
volatility(df, w, i) ==
    LET win == Rolling([j \in 1..w |-> return_1d(df, i - w + j)], w, i)
    IN  IF win = NaN THEN NaN ELSE Stat("std", win)

\* delta = df['Close'].diff()
delta(df, i) == IF i - 1 \in 1..Rows(df) /\ i \in 1..Rows(df) THEN Num(df.Close[i] - df.Close[i - 1]) ELSE NaN

RECURSIVE SumCells(_)
SumCells(win) == IF win = <<>> THEN 0 ELSE Head(win)[1] + SumCells(Tail(win))

\* delta.clip(lower=0) and -delta.clip(upper=0)
ClipLower0(cell) == IF cell = NaN THEN NaN ELSE Num(IF cell[1] > 0 THEN cell[1] ELSE 0)
NegClipUpper0(cell) == IF cell = NaN THEN NaN ELSE Num(IF cell[1] < 0 THEN 0 - cell[1] ELSE 0)

\* gain = delta.clip(lower=0).rolling(14).mean()
gain(df, i) ==
    LET win == Rolling([j \in 1..14 |-> ClipLower0(delta(df, i - 14 + j))], 14, i)
    IN  IF win = NaN THEN NaN ELSE Rat(SumCells(win), 14)

\* loss = (-delta.clip(upper=0)).rolling(14).mean()
loss(df, i) ==
    LET win == Rolling([j \in 1..14 |-> NegClipUpper0(delta(df, i - 14 + j))], 14, i)
    IN  IF win = NaN THEN NaN ELSE Rat(SumCells(win), 14)

\* 100 - (100 / (1 + gain / (loss + 1e-10))): held as the pair it is computed from
rsi_14(df, i) ==
    IF gain(df, i) = NaN \/ loss(df, i) = NaN THEN NaN
    ELSE Stat("rsi", <<gain(df, i), loss(df, i)>>)

\* ema_12 - ema_26, its 9-day ewm, and their difference
macd(df, i) == Stat("macd", <<Ewm(df.Close, 12, i), Ewm(df.Close, 26, i)>>)
\* macd at every row up to i is a function of the closes up to i
macd_signal(df, i) == Stat("ewm", <<9, Stat("macd", <<12, 26, SubSeq(df.Close, 1, i)>>)>>)
macd_histogram(df, i) == Stat("sub", <<macd(df, i), macd_signal(df, i)>>)

\* Bollinger bands over df['Close'].rolling(20)
bb_middle(df, i) ==
    IF RollingRaw(df.Close, 20, i) = NaN THEN NaN
    ELSE Stat("mean", RollingRaw(df.Close, 20, i))
bb_std(df, i) ==
    IF RollingRaw(df.Close, 20, i) = NaN THEN NaN
    ELSE Stat("std", RollingRaw(df.Close, 20, i))
bb_upper(df, i) ==
    IF bb_middle(df, i) = NaN THEN NaN
    ELSE Stat("bb_upper", <<bb_middle(df, i), bb_std(df, i)>>)
bb_lower(df, i) ==
    IF bb_middle(df, i) = NaN THEN NaN
    ELSE Stat("bb_lower", <<bb_middle(df, i), bb_std(df, i)>>)
bb_position(df, i) ==
    IF bb_middle(df, i) = NaN THEN NaN
    ELSE Stat("bb_position", <<df.Close[i], bb_lower(df, i), bb_upper(df, i)>>)

\* tr = max(high - low, |high - prev close|, |low - prev close|), skipping NaN
tr(df, i) ==
    IF i \notin 1..Rows(df) THEN NaN ELSE
    LET high_low == df.High[i] - df.Low[i]
        prev == Shift(df.Close, 1, i)
        high_close == IF prev = NaN THEN high_low ELSE IntAbs(df.High[i] - prev[1])
        low_close == IF prev = NaN THEN high_low ELSE IntAbs(df.Low[i] - prev[1])
        m == IF high_close > high_low THEN high_close ELSE high_low
    IN  Num(IF low_close > m THEN low_close ELSE m)

\* tr.rolling(14).mean() and df['atr_14'] / df['Close']
atr_14(df, i) ==
    LET win == Rolling([j \in 1..14 |-> tr(df, i - 14 + j)], 14, i)
    IN  IF win = NaN THEN NaN ELSE Rat(SumCells(win), 14)
atr_pct(df, i) ==
    IF atr_14(df, i) = NaN THEN NaN ELSE RatDiv(atr_14(df, i), RatInt(df.Close[i]))

\* df['Close'].rolling(w).mean()
sma(df, w, i) ==
    IF RollingRaw(df.Close, w, i) = NaN THEN NaN
    ELSE Stat("mean", RollingRaw(df.Close, w, i))

\* (df['Close'] - df['sma_w']) / df['sma_w']
price_vs_sma(df, w, i) ==
    IF sma(df, w, i) = NaN THEN NaN
    ELSE Stat("price_vs_sma", <<df.Close[i], sma(df, w, i)>>)

\* (df['return_1d'] > 0).astype(int) and (df['return_1d'] < 0).astype(int):
\* a comparison with NaN is False
up_day(df, i) ==
    IF return_1d(df, i) # NaN /\ return_1d(df, i)[1] > 0 THEN 1 ELSE 0
down_day(df, i) ==
    IF return_1d(df, i) # NaN /\ return_1d(df, i)[1] < 0 THEN 1 ELSE 0

\* The column up_day or down_day at row i
Flag(df, name, i) == IF name = "up_day" THEN up_day(df, i) ELSE down_day(df, i)

\* The first row of the run of equal values of the flag that row i belongs
\* to: the group key (flag != flag.shift()).cumsum() is constant on a run.
RECURSIVE GroupStart(_, _, _)
GroupStart(df, name, i) ==
    IF i > 1 /\ Flag(df, name, i - 1) = Flag(df, name, i)
       THEN GroupStart(df, name, i - 1)
       ELSE i

\* flag.cumsum() at row i, without the grouping: the sum of the flag so far
PlainCumsum(df, name, i) ==
    Flag(df, name, i) * Cardinality({j \in 1..i : Flag(df, name, j) = 1})

\* flag.groupby(key).cumsum() at row i: the sum of the flag over its run so far
GroupCumsum(df, name, i) ==
    Flag(df, name, i) * (i - GroupStart(df, name, i) + 1)

\* df['streak']
streak(df, i) ==
    GroupCumsum(df, "up_day", i) - GroupCumsum(df, "down_day", i)

\* vix_df['Close'].reindex(df.index).ffill()
RECURSIVE vix(_, _, _)
vix(df, vixdf, i) ==
    IF i \notin 1..Rows(df) THEN NaN
    ELSE IF df.Date[i] \in DOMAIN vixdf THEN Num(vixdf[df.Date[i]])
    ELSE IF i = 1 THEN NaN
    ELSE vix(df, vixdf, i - 1)

\* df['vix'].rolling(w).mean()
vix_avg(df, vixdf, w, i) ==
    LET win == Rolling([j \in 1..w |-> vix(df, vixdf, i - w + j)], w, i)
    IN  IF win = NaN THEN NaN ELSE Rat(SumCells(win), w)

\* df['vix'].rolling(252).rank(pct=True): the rank of the day's level among
\* the 252 levels ending with it, ties sharing the average rank
vix_percentile(df, vixdf, i) ==
    LET win == Rolling([j \in 1..252 |-> vix(df, vixdf, i - 252 + j)], 252, i)
    IN  IF win = NaN THEN NaN
        ELSE LET x == win[252][1]
                 below == Cardinality({j \in 1..252 : win[j][1] < x})
                 equal == Cardinality({j \in 1..252 : win[j][1] = x})
             IN  Rat(2 * below + equal + 1, 2 * 252)

\* (vix_20d_avg - vix_5d_avg) / (vix_20d_avg + 1e-10)
vix_term_structure(df, vixdf, i) ==
    IF vix_avg(df, vixdf, 20, i) = NaN \/ vix_avg(df, vixdf, 5, i) = NaN THEN NaN
    ELSE Stat("term", <<vix_avg(df, vixdf, 20, i), vix_avg(df, vixdf, 5, i)>>)

\* Whether every entry of the window is the same: its variance is 0.
IsConstant(win) == \A j \in 1..Len(win) : win[j] = win[1]

\* df['vix'].rolling(20).corr(df['Close']): NaN when either window is constant
vix_price_corr(df, vixdf, i) ==
    LET vwin == Rolling([j \in 1..20 |-> vix(df, vixdf, i - 20 + j)], 20, i)
        cwin == RollingRaw(df.Close, 20, i)
    IN  IF vwin = NaN \/ cwin = NaN THEN NaN
        ELSE IF IsConstant(vwin) \/ IsConstant(cwin) THEN NaN
        ELSE Stat("corr", <<vwin, cwin>>)

\* Volume features
volume_sma_20(df, i) ==
    IF RollingRaw(df.Volume, 20, i) = NaN THEN NaN
    ELSE Stat("mean", RollingRaw(df.Volume, 20, i))
volume_ratio(df, i) ==
    IF volume_sma_20(df, i) = NaN THEN NaN
    ELSE Stat("ratio", <<df.Volume[i], volume_sma_20(df, i)>>)
volume_change(df, i) == PctChange(df.Volume, 1, i)

----------------------------------------------------------------------------
(* build_features: the frame *)

\* The row of df at index i with every column build_features has added.
FeatureRow(df, vixdf, i) ==
    [Date |-> df.Date[i], Open |-> df.Open[i], High |-> df.High[i],
     Low |-> df.Low[i], Close |-> df.Close[i], Volume |-> df.Volume[i],
     return_1d |-> return_1d(df, i),
     return_5d |-> return_5d(df, i),
     return_20d |-> return_20d(df, i),
     log_return |-> log_return(df, i),
     volatility_10d |-> volatility(df, 10, i),
     volatility_20d |-> volatility(df, 20, i),
     volatility_60d |-> volatility(df, 60, i),
     rsi_14 |-> rsi_14(df, i),
     macd |-> macd(df, i),
     macd_signal |-> macd_signal(df, i),
     macd_histogram |-> macd_histogram(df, i),
     bb_middle |-> bb_middle(df, i),
     bb_std |-> bb_std(df, i),
     bb_upper |-> bb_upper(df, i),
     bb_lower |-> bb_lower(df, i),
     bb_position |-> bb_position(df, i),
     atr_14 |-> atr_14(df, i),
     atr_pct |-> atr_pct(df, i),
     sma_5 |-> sma(df, 5, i),
     sma_20 |-> sma(df, 20, i),
     sma_50 |-> sma(df, 50, i),
     sma_200 |-> sma(df, 200, i),
     price_vs_sma20 |-> price_vs_sma(df, 20, i),
     price_vs_sma50 |-> price_vs_sma(df, 50, i),
     price_vs_sma200 |-> price_vs_sma(df, 200, i),
     up_day |-> up_day(df, i),
     down_day |-> down_day(df, i),
     streak |-> streak(df, i),
     vix |-> vix(df, vixdf, i),
     vix_5d_avg |-> vix_avg(df, vixdf, 5, i),
     vix_20d_avg |-> vix_avg(df, vixdf, 20, i),
     vix_percentile |-> vix_percentile(df, vixdf, i),
     vix_term_structure |-> vix_term_structure(df, vixdf, i),
     vix_price_corr |-> vix_price_corr(df, vixdf, i),
     volume_sma_20 |-> volume_sma_20(df, i),
     volume_ratio |-> volume_ratio(df, i),
     volume_change |-> volume_change(df, i)]

\* df.dropna(): whether row i has a NaN in any column. up_day, down_day and
\* streak are integers and the raw columns are complete. The columns with
\* the longest windows are looked at first.
HasNaN(df, vixdf, i) ==
    \/ vix_percentile(df, vixdf, i) = NaN
    \/ sma(df, 200, i) = NaN
    \/ volatility(df, 60, i) = NaN
    \/ sma(df, 50, i) = NaN
    \/ return_20d(df, i) = NaN
    \/ volatility(df, 20, i) = NaN
    \/ bb_middle(df, i) = NaN
    \/ vix_avg(df, vixdf, 20, i) = NaN
    \/ vix_price_corr(df, vixdf, i) = NaN
    \/ volume_sma_20(df, i) = NaN
    \/ rsi_14(df, i) = NaN
    \/ atr_14(df, i) = NaN
    \/ volatility(df, 10, i) = NaN
    \/ return_5d(df, i) = NaN
    \/ sma(df, 5, i) = NaN
    \/ vix_avg(df, vixdf, 5, i) = NaN
    \/ return_1d(df, i) = NaN
    \/ log_return(df, i) = NaN
    \/ vix(df, vixdf, i) = NaN
    \/ volume_change(df, i) = NaN

\* The indices of the rows dropna() keeps.
KeptRows(df, vixdf) == {i \in 1..Rows(df) : ~HasNaN(df, vixdf, i)}

\* The feature frame: the rows of df, in order, that have no NaN.
build_features(df, vixdf) ==
    LET kept == KeptRows(df, vixdf)
    IN  [k \in 1..Cardinality(kept) |->
            FeatureRow(df, vixdf,
                       CHOOSE i \in kept : Cardinality({j \in kept : j <= i}) = k)]

\* df[feature_cols] at one row
Project(row, feature_cols) == [c \in feature_cols |-> row[c]]

----------------------------------------------------------------------------
(* The supervised members' training sets: X and y, row by row *)

\* train_rf_reversal: did the next day's return have another sign than the
\* streak?  The last row has no next return and dropna() removes it, then
\* iloc[:-1] removes one more.
ReversalCols ==
    {"streak", "rsi_14", "bb_position", "macd_histogram", "volatility_20d",
     "vix", "vix_percentile", "atr_pct", "volume_ratio", "price_vs_sma20"}

train_rf_reversal(features) ==
    [k \in 1..(IF Len(features) > 2 THEN Len(features) - 2 ELSE 0) |->
        [Date |-> features[k].Date,
         X |-> Project(features[k], ReversalCols),
         y |-> IF Sign(features[k].streak) # Sign(features[k + 1].return_1d[1])
                  THEN 1 ELSE 0]]

\* train_xgb_momentum: did the close move more than 1.5% within the next
\* three rows?  The last three rows have no future_3d_return and dropna()
\* removes them, then iloc[:-3] removes three more.
MomentumCols ==
    {"rsi_14", "macd", "macd_histogram", "bb_position", "return_1d",
     "return_5d", "return_20d", "volatility_10d", "volatility_20d",
     "atr_pct", "volume_ratio", "price_vs_sma20", "price_vs_sma50",
     "vix", "vix_percentile", "vix_term_structure"}

StrongMove == Rat(15, 1000)

train_xgb_momentum(features) ==
    [k \in 1..(IF Len(features) > 6 THEN Len(features) - 6 ELSE 0) |->
        LET future_3d_return ==
                Rat(features[k + 3].Close - features[k].Close, features[k].Close)
        IN  [Date |-> features[k].Date,
             X |-> Project(features[k], MomentumCols),
             y |-> IF RatLt(StrongMove, RatAbs(future_3d_return)) THEN 1 ELSE 0]]

\* train_qr_range: the next row's range as a fraction of this row's close.
RangeCols ==
    {"atr_pct", "volatility_10d", "volatility_20d", "vix", "vix_percentile",
     "volume_ratio", "bb_position", "rsi_14"}

train_qr_range(features) ==
    [k \in 1..(IF Len(features) > 2 THEN Len(features) - 2 ELSE 0) |->
        [Date |-> features[k].Date,
         X |-> Project(features[k], RangeCols),
         y |-> Rat(features[k + 1].High - features[k + 1].Low, features[k].Close)]]

\* The order of two rsi_14 values 100 - 100 / (1 + gain / (loss + 1e-10)),
\* which grows with gain / (loss + 1e-10).
RsiLt(a, b) ==
    LET ga == a[2][1]
        la == a[2][2]
        gb == b[2][1]
        lb == b[2][2]
    IN  \/ RatLt(RatMul(ga, lb), RatMul(gb, la))
        \/ RatMul(ga, lb) = RatMul(gb, la) /\ RatLt(ga, gb)

\* features['Close'].rolling(5).min() and .max() at row k
price_5d_min(features, k) ==
    IF k < 5 THEN NaN
    ELSE LET win == {features[h].Close : h \in (k - 4)..k}
         IN  Num(CHOOSE c \in win : \A e \in win : c <= e)
price_5d_max(features, k) ==
    IF k < 5 THEN NaN
    ELSE LET win == {features[h].Close : h \in (k - 4)..k}
         IN  Num(CHOOSE c \in win : \A e \in win : c >= e)

\* features['rsi_14'].rolling(5).min() and .max() at row k
rsi_5d_min(features, k) ==
    IF k < 5 THEN NaN
    ELSE LET win == {features[h].rsi_14 : h \in (k - 4)..k}
         IN  Num(CHOOSE c \in win : \A e \in win : ~RsiLt(e, c))
rsi_5d_max(features, k) ==
    IF k < 5 THEN NaN
    ELSE LET win == {features[h].rsi_14 : h \in (k - 4)..k}
         IN  Num(CHOOSE c \in win : \A e \in win : ~RsiLt(c, e))

\* a comparison with a NaN is False: shift(5) is NaN in the first nine rows
bullish_div(features, k) ==
    /\ k - 5 >= 5
    /\ price_5d_min(features, k)[1] < price_5d_min(features, k - 5)[1]
    /\ RsiLt(rsi_5d_min(features, k - 5)[1], rsi_5d_min(features, k)[1])

bearish_div(features, k) ==
    /\ k - 5 >= 5
    /\ price_5d_max(features, k)[1] > price_5d_max(features, k - 5)[1]
    /\ RsiLt(rsi_5d_max(features, k)[1], rsi_5d_max(features, k - 5)[1])

\* train_gbm_divergence: is there a divergence pattern in the ten rows
\* ending with this one?  dropna() removes the first four rows, whose
\* five-row windows are NaN, and no row is removed at the end.
DivergenceCols ==
    {"rsi_14", "macd", "macd_histogram", "return_5d", "return_20d",
     "bb_position", "volume_ratio"}

train_gbm_divergence(features) ==
    [n \in 1..(IF Len(features) > 4 THEN Len(features) - 4 ELSE 0) |->
        LET k == n + 4
        IN  [Date |-> features[k].Date,
             X |-> Project(features[k], DivergenceCols),
             y |-> IF bullish_div(features, k) \/ bearish_div(features, k)
                      THEN 1 ELSE 0]]

SupervisedMembers == {"reversal", "momentum", "range", "divergence"}

MemberCols(member) ==
    CASE member = "reversal" -> ReversalCols
      [] member = "momentum" -> MomentumCols
      [] member = "range" -> RangeCols
      [] member = "divergence" -> DivergenceCols

TrainingSet(member, features) ==
    CASE member = "reversal" -> train_rf_reversal(features)
      [] member = "momentum" -> train_xgb_momentum(features)
      [] member = "range" -> train_qr_range(features)
      [] member = "divergence" -> train_gbm_divergence(features)

----------------------------------------------------------------------------
(* Feature engineering and label derivation as steps *)

NoFeatures == <<>>
NoTrainFrame == [member |-> "none", rows |-> <<>>]

\* features_df = build_features(nifty_df, vix_df)
BuildFeatures ==
    /\ featPc = "data"
    /\ features_df' = build_features(nifty_df, vix_df)
    /\ featPc' = "built"
    /\ UNCHANGED <<nifty_df, vix_df, trainFrame>>
    /\ UNCHANGED outsideFeatures

DeriveTrainingSet(member) ==
    /\ featPc = "built"
    /\ trainFrame' = [member |-> member, rows |-> TrainingSet(member, features_df)]
    /\ featPc' = "labelled"
    /\ UNCHANGED <<nifty_df, vix_df, features_df>>
    /\ UNCHANGED outsideFeatures

TrainRfReversal == DeriveTrainingSet("reversal")
TrainXgbMomentum == DeriveTrainingSet("momentum")
TrainQrRange == DeriveTrainingSet("range")
TrainGbmDivergence == DeriveTrainingSet("divergence")

\* The next run starts from the data again.
NextRun ==
    /\ featPc = "labelled"
    /\ features_df' = NoFeatures
    /\ trainFrame' = NoTrainFrame
    /\ featPc' = "data"
    /\ UNCHANGED <<nifty_df, vix_df>>
    /\ UNCHANGED outsideFeatures

InitFeatures(s) ==
    /\ nifty_df = BaseFrame(s)
    /\ vix_df = BaseVix(s)
    /\ features_df = NoFeatures
    /\ trainFrame = NoTrainFrame
    /\ featPc = "data"

NextFeatures ==
    \/ AppendBar
    \/ AppendVixOnly
    \/ BuildFeatures
    \/ TrainRfReversal
    \/ TrainXgbMomentum
    \/ TrainQrRange
    \/ TrainGbmDivergence
    \/ NextRun

----------------------------------------------------------------------------
(* run_inference and the dashboard tiles: from predictions to what is shown *)

NoTile == [fn |-> "none"]

\* The order in which a run computes: run_inference's numbered steps.
ComputeOrder ==
    <<"regime", "reversal", "momentum", "range", "traffic", "fomo", "verdict">>

\* The step `fn` is due, and the one after it is due next; after the last
\* one the next run starts over.
Compute(fn) ==
    /\ ComputeOrder[tileStep] = fn
    /\ tileStep' = IF tileStep = Len(ComputeOrder) THEN 1 ELSE tileStep + 1

\* The quantile models train_qr_range fits, in the order it fits them.
Quantiles == <<"q10", "q25", "q50", "q75", "q90">>
QuantileNames == {Quantiles[i] : i \in 1..Len(Quantiles)}

\* int(x) of a float that is not negative: the whole part
IntOf(x) == x[1] \div x[2]

\* run_inference, 3. Momentum Score
MomentumScore(mom_prob) ==
    [score |-> IntOf(RatMul(mom_prob, RatInt(100))),
     strength |-> IF RatLt(Rat(7, 10), mom_prob) THEN "HIGH"
                  ELSE IF RatLt(Rat(4, 10), mom_prob) THEN "MEDIUM"
                  ELSE "LOW"]

\* What the momentum classifier's predict_proba may return.
MomentumProbabilities == {Rat(k, MomentumProbSteps) : k \in 0..MomentumProbSteps}

MomentumStep ==
    /\ Compute("momentum")
    /\ \E mom_prob \in MomentumProbabilities :
          tile' = [fn |-> "momentum", mom_prob |-> mom_prob,
                   out |-> MomentumScore(mom_prob)]
    /\ UNCHANGED outsideTiles

\* run_inference, 4. Range Quartiles: every quantile model's prediction for
\* the latest row, times the live price. Each model was fitted on its own;
\* the return skewness plays no part.
RangeQuartiles(preds, live_price) ==
    [q \in QuantileNames |-> RatMul(preds[q], RatInt(live_price))]

\* What a quantile model may predict (next-day range as a fraction of the
\* close), the live prices and the skewness of the return distribution.
RangePredictions == {Rat(k, 100) : k \in 1..3}
LivePrices == {20000}
Skews == {Rat(-1, 1), Rat(-1, 2), Rat(0, 1), Rat(1, 2), Rat(1, 1)}

RangeStep ==
    /\ Compute("range")
    /\ \E preds \in [QuantileNames -> RangePredictions],
          live_price \in LivePrices, skew \in Skews :
          tile' = [fn |-> "range", preds |-> preds, live_price |-> live_price,
                   skew |-> skew, out |-> RangeQuartiles(preds, live_price)]
    /\ UNCHANGED outsideTiles

\* np.argmax and np.argmin: the first index holding the largest (smallest)
\* value. States are numbered 1..3 here and 0..2 in the code.
ArgMax(xs) ==
    CHOOSE i \in 1..Len(xs) :
        /\ \A j \in 1..Len(xs) : xs[j] <= xs[i]
        /\ \A j \in 1..(i - 1) : xs[j] < xs[i]

ArgMin(xs) ==
    CHOOSE i \in 1..Len(xs) :
        /\ \A j \in 1..Len(xs) : xs[j] >= xs[i]
        /\ \A j \in 1..(i - 1) : xs[j] > xs[i]

\* train_hmm_regime: the labels of the three fitted states, from the means
\* of their volatility. The assignments are made one after the other.
StateLabels(vol_means) ==
    LET blank == [i \in 1..3 |-> ""]
        chaotic == [blank EXCEPT ![ArgMax(vol_means)] = "CHAOTIC"]
        trending == [chaotic EXCEPT ![ArgMin(vol_means)] = "TRENDING"]
        remaining == CHOOSE i \in 1..3 :
                        /\ trending[i] = ""
                        /\ \A j \in 1..(i - 1) : trending[j] # ""
    IN  [trending EXCEPT ![remaining] = "MEAN_REVERTING"]

\* The volatility means a fit may end with, and the states predict may name.
VolMeans == 1..MaxVolMean

\* run_inference, 1. Regime Prediction, with the labels the bundle carries
\* from train_hmm_regime.
RegimeStep ==
    /\ Compute("regime")
    /\ \E vol_means \in [1..3 -> VolMeans], state \in 1..3 :
          tile' = [fn |-> "regime", vol_means |-> vol_means,
                   state_labels |-> StateLabels(vol_means), state |-> state,
                   current |-> StateLabels(vol_means)[state]]
    /\ UNCHANGED outsideTiles

\* base ** exponent for a whole exponent
RECURSIVE RatPow(_, _)
RatPow(base, exponent) ==
    IF exponent <= 0 THEN RatInt(1)
    ELSE RatMul(base, RatPow(base, exponent - 1))

\* Streak Confidence Penalty (Fix #5): `streak` is the signed counter of
\* build_features, positive in a run of up days and negative in a run of
\* down days.
StreakThreshold == 5
PenaltyBase == Rat(85, 100)

StreakConfidencePenalty(current_streak, probability) ==
    IF current_streak > StreakThreshold
       THEN RatMul(probability, RatPow(PenaltyBase, current_streak - StreakThreshold))
       ELSE probability

\* What predict_proba may return and what the streak column may hold.
Probabilities == {Rat(k, ProbabilitySteps) : k \in 0..ProbabilitySteps}
Streaks == (0 - MaxStreak)..MaxStreak

ReversalStep ==
    /\ Compute("reversal")
    /\ \E current_streak \in Streaks, rev_prob \in Probabilities :
          tile' = [fn |-> "reversal", streak |-> current_streak, rev_prob |-> rev_prob,
                   out |-> StreakConfidencePenalty(current_streak, rev_prob)]
    /\ UNCHANGED outsideTiles

\* TILE 19, Trade Traffic Light. Green: Regime=Trending AND VIX<20 AND
\* Momentum>60. Red: Regime=Chaotic OR VIX>24. Yellow: everything else.
TrafficLightLoose(regime, vix_level, momentum) ==
    IF regime = "TRENDING" /\ momentum > 60 THEN "GO"
    ELSE IF regime = "CHAOTIC" \/ RatLt(RatInt(24), vix_level) THEN "STOP"
    ELSE "WAIT"

TrafficLight(regime, vix_level, momentum) ==
    IF regime = "TRENDING" /\ RatLt(vix_level, RatInt(20)) /\ momentum > 60 THEN "GO"
    ELSE IF regime = "CHAOTIC" \/ RatLt(RatInt(24), vix_level) THEN "STOP"
    ELSE "WAIT"

\* The labels a bundle's state may carry, the VIX levels (in halves of a
\* point) and the momentum scores around the thresholds.
RegimeLabels == Regimes \cup {""}
MinVix == 18
VixLevels == {Rat(k, 2) : k \in (2 * MinVix)..(2 * MaxVix)}
MomentumScores == {0, 59, 60, 61, 100}

TrafficLightTile ==
    /\ Compute("traffic")
    /\ \E regime \in RegimeLabels, vix_level \in VixLevels, momentum \in MomentumScores :
          tile' = [fn |-> "traffic", regime |-> regime, vix |-> vix_level,
                   momentum |-> momentum,
                   out |-> TrafficLight(regime, vix_level, momentum)]
    /\ UNCHANGED outsideTiles

\* TILE 20, FOMO Meter: the first of the four rules that applies, in the
\* order the tile lists them; "" when none does.
\*   EXTREME FOMO: RSI > 75 OR Price > Upper BB      HIGH RISK: RSI 65-75
\*   NEUTRAL: RSI 35-65      EXTREME PANIC: RSI < 25 OR Price < Lower BB
FomoMeter(rsi, bb) ==
    IF rsi > 75 \/ bb = "above upper" THEN "EXTREME FOMO"
    ELSE IF rsi >= 65 /\ rsi <= 75 THEN "HIGH RISK"
    ELSE IF rsi >= 35 /\ rsi <= 65 THEN "NEUTRAL"
    ELSE IF rsi < 25 \/ bb = "below lower" THEN "EXTREME PANIC"
    ELSE ""

\* RSI is between 0 and 100; the price is above the upper Bollinger band,
\* below the lower one or between the two.
RsiValues == 0..100
BandPositions == {"above upper", "inside", "below lower"}

FomoMeterTile ==
    /\ Compute("fomo")
    /\ \E rsi \in RsiValues, bb \in BandPositions :
          tile' = [fn |-> "fomo", rsi |-> rsi, bb |-> bb,
                   out |-> FomoMeter(rsi, bb)]
    /\ UNCHANGED outsideTiles

\* The overall verdict: the Signal Counter behind MarketDataState's
\* overallVerdict. Each sub-signal has a direction; the directions are
\* counted and the stance is the category that has more than either other.
SubSignals == {"regime", "momentum", "reversal", "divergence", "skew"}
Directions == {"bullish", "bearish", "neutral"}

Tally(signals, direction) ==
    Cardinality({k \in DOMAIN signals : signals[k] = direction})

StanceTiesBullish(bullish, bearish, neutral) ==
    IF bullish >= bearish /\ bullish >= neutral THEN "BULLISH"
    ELSE IF bearish > bullish /\ bearish > neutral THEN "BEARISH"
    ELSE "NEUTRAL"

Stance(bullish, bearish, neutral) ==
    IF bullish > bearish /\ bullish > neutral THEN "BULLISH"
    ELSE IF bearish > bullish /\ bearish > neutral THEN "BEARISH"
    ELSE "NEUTRAL"

OverallVerdict(signals) ==
    [stance |-> Stance(Tally(signals, "bullish"), Tally(signals, "bearish"),
                       Tally(signals, "neutral")),
     bullishSignals |-> Tally(signals, "bullish"),
     bearishSignals |-> Tally(signals, "bearish"),
     totalSignals |-> Cardinality(DOMAIN signals)]

\* The verdict is computed with the snapshot and shown as it comes:
\* overallVerdict: data.overallVerdict || null.
OverallVerdictPanel ==
    /\ Compute("verdict")
    /\ \E signals \in [SubSignals -> Directions] :
          tile' = [fn |-> "verdict", signals |-> signals,
                   out |-> OverallVerdict(signals)]
    /\ UNCHANGED outsideTiles

InitTiles == tile = NoTile /\ tileStep = 1

NextTiles ==
    \/ RegimeStep
    \/ RangeStep
    \/ ReversalStep
    \/ MomentumStep
    \/ TrafficLightTile
    \/ FomoMeterTile
    \/ OverallVerdictPanel

----------------------------------------------------------------------------
(* daily_inference.yml: cron '*/30 4-10 * * 1-5', evaluated in UTC *)

MinutesPerDay == 24 * 60
MinutesPerWeek == 7 * MinutesPerDay

MinuteOf(t) == t % 60
HourOf(t) == (t % MinutesPerDay) \div 60
\* cron's day of week: 0 is Sunday
DayOfWeek(t) == t \div MinutesPerDay

CronMatches(t) ==
    /\ MinuteOf(t) % 30 = 0
    /\ HourOf(t) \in 4..10
    /\ DayOfWeek(t) \in 1..5

\* The workflow starts at a minute the expression matches.
ScheduledStart ==
    /\ CronMatches(now)
    /\ lastStart # now
    /\ lastStart' = now
    /\ prevStart' = lastStart
    /\ UNCHANGED now
    /\ UNCHANGED outsideCron

\* A minute passes, once the start due in it has been made.
Tick ==
    /\ CronMatches(now) => lastStart = now
    /\ now' = (now + 1) % MinutesPerWeek
    /\ UNCHANGED <<lastStart, prevStart>>
    /\ UNCHANGED outsideCron

InitCron == now = 0 /\ lastStart = -1 /\ prevStart = -1

NextCron ==
    \/ ScheduledStart
    \/ Tick

----------------------------------------------------------------------------
(* services/marketData.ts and App.tsx: loading the dashboard's data *)

Indexes == {"NIFTY", "BANKNIFTY"}

\* useState<MarketDataState | null>(null)
NullData == [source |-> "null"]

\* A JSON value's field, as the truthiness tests see it: not there, there
\* with a falsy value (null, 0, "", false), or an object.
FieldValues == {"absent", "falsy", "object"}

Truthy(field) == field = "object"

\* What response.json() can make of a body: a rejection, the value null, or
\* an object with some of tiles, hero and indexName.
JsonBodies ==
    [parse : {"error", "null"}, tiles : {"absent"}, hero : {"absent"},
     indexName : {"absent"}]
    \cup [parse : {"object"}, tiles : FieldValues, hero : FieldValues,
          indexName : Indexes \cup {"absent"}]

NoBody == [parse |-> "error", tiles |-> "absent", hero |-> "absent",
           indexName |-> "absent"]

\* How fetch() of /data/rubix_<index>.json can end.
FetchOutcomes ==
    {[kind |-> "network_error", ok |-> FALSE, json |-> NoBody],
     [kind |-> "response", ok |-> FALSE, json |-> NoBody]}
    \cup [kind : {"response"}, ok : {TRUE}, json : JsonBodies]

\* getMockMarketData
getMockMarketData(idx) == [source |-> "mock", indexName |-> idx]

\* The body of fetchMarketDataFromJSON's try block: it throws, or returns
\* null or the converted state.
TryFetch(idx, outcome) ==
    IF outcome.kind = "network_error"
       THEN [threw |-> TRUE, value |-> NullData]
    ELSE IF ~outcome.ok
       THEN [threw |-> FALSE, value |-> NullData]
    ELSE IF outcome.json.parse = "error"
       THEN [threw |-> TRUE, value |-> NullData]
    ELSE IF outcome.json.parse = "null"
       \* data.tiles of null: TypeError
       THEN [threw |-> TRUE, value |-> NullData]
    ELSE IF ~Truthy(outcome.json.tiles) \/ ~Truthy(outcome.json.hero)
       THEN [threw |-> FALSE, value |-> NullData]
    ELSE [threw |-> FALSE,
          value |-> [source |-> "json",
                     indexName |-> IF outcome.json.indexName = "absent"
                                      THEN idx
                                      ELSE outcome.json.indexName]]

Pending == [state |-> "pending", value |-> NullData]
Fulfilled(v) == [state |-> "fulfilled", value |-> v]
Rejected == [state |-> "rejected", value |-> NullData]

\* fetchMarketDataFromJSON without its catch block.
fetchMarketDataFromJSONUncaught(idx, outcome) ==
    IF TryFetch(idx, outcome).threw
       THEN Rejected
       ELSE Fulfilled(TryFetch(idx, outcome).value)

\* fetchMarketDataFromJSON: catch (error) { return null }
fetchMarketDataFromJSON(idx, outcome) ==
    IF TryFetch(idx, outcome).threw
       THEN Fulfilled(NullData)
       ELSE Fulfilled(TryFetch(idx, outcome).value)

\* getMarketDataAsync returning whatever the fetch gave.
getMarketDataAsyncNoFallback(idx, outcome) ==
    fetchMarketDataFromJSON(idx, outcome)

\* getMarketDataAsync: a rejection of the awaited promise passes through.
getMarketDataAsync(idx, outcome) ==
    LET liveData == fetchMarketDataFromJSON(idx, outcome)
    IN  IF liveData.state = "rejected" THEN Rejected
        ELSE IF liveData.value # NullData THEN liveData
        ELSE Fulfilled(getMockMarketData(idx))

\* refreshData, up to its await: setData(null) and the call is in flight.
\* idx is the index of the render whose effect runs it.
refreshData(idx) ==
    /\ refreshes < MaxRefreshes
    /\ refreshes' = refreshes + 1
    /\ data' = NullData
    /\ loads' = loads \cup {[id |-> refreshes + 1, index |-> idx,
                             outcome |-> [kind |-> "none"],
                             promise |-> Pending]}

\* useEffect(() => { refreshData() }, [index]) after the first render.
Mount ==
    /\ refreshes = 0
    /\ refreshData(index)
    /\ UNCHANGED index
    /\ UNCHANGED outsideDash

\* The index selector's onChange: setIndex(v); the effect runs again when
\* the index has changed.
SelectIndex ==
    /\ refreshes > 0
    /\ \E v \in Indexes \ {index} :
          /\ index' = v
          /\ refreshData(v)
    /\ UNCHANGED outsideDash

\* The fetch of one call ends and getMarketDataAsync's promise settles.
SettleLoad ==
    /\ \E l \in loads, outcome \in FetchOutcomes :
          /\ l.promise = Pending
          /\ loads' = (loads \ {l}) \cup
                {[l EXCEPT !.outcome = outcome,
                           !.promise = getMarketDataAsync(l.index, outcome)]}
    /\ UNCHANGED <<index, data, refreshes>>
    /\ UNCHANGED outsideDash

\* refreshData after its await: setData(liveData), or in the catch block
\* setData(getMarketData(index)) with the index of the call.
ResumeRefresh ==
    /\ \E l \in loads :
          /\ l.promise # Pending
          /\ data' = IF l.promise.state = "fulfilled"
                        THEN l.promise.value
                        ELSE getMockMarketData(l.index)
          /\ loads' = loads \ {l}
    /\ UNCHANGED <<index, refreshes>>
    /\ UNCHANGED outsideDash

InitDash ==
    /\ index = "NIFTY"
    /\ data = NullData
    /\ loads = {}
    /\ refreshes = 0

NextDashboard ==
    \/ Mount
    \/ SelectIndex
    \/ SettleLoad
    \/ ResumeRefresh

----------------------------------------------------------------------------
(* App.tsx: the disclaimer modal, shown again 48 hours after it was accepted *)

\* localStorage.getItem of a key that was never set: null.
NoItem == <<>>

\* Number.prototype.toString(): the decimal digits, most significant first.
RECURSIVE toString(_)
toString(n) == IF n < 10 THEN <<n>> ELSE Append(toString(n \div 10), n % 10)

\* parseInt(s, 10) of a string of digits.
RECURSIVE parseInt(_)
parseInt(s) ==
    IF Len(s) = 1 THEN s[1]
    ELSE 10 * parseInt(SubSeq(s, 1, Len(s) - 1)) + s[Len(s)]

DisclaimerHours == 48

\* hoursPassed >= 48 instead.
ExpiredAtLimit(lastTime, nowTime) == nowTime - lastTime >= DisclaimerHours

\* hoursPassed > 48, with hoursPassed = (now - lastTime) / (1000 * 60 * 60)
Expired(lastTime, nowTime) == nowTime - lastTime > DisclaimerHours

\* The mount effect's disclaimer check.
DisclaimerCheck ==
    /\ ~appLoaded
    /\ appLoaded' = TRUE
    /\ LET lastDisclaimer == storedAck
       IN  IF lastDisclaimer = NoItem
              THEN disclaimerOpen' = TRUE
           ELSE IF Expired(parseInt(lastDisclaimer), wallClock)
              THEN disclaimerOpen' = TRUE
              ELSE UNCHANGED disclaimerOpen
    /\ UNCHANGED <<wallClock, storedAck>>
    /\ UNCHANGED outsideAck

\* The modal's only button (preventClose leaves no other way to close it).
acceptDisclaimer ==
    /\ appLoaded
    /\ disclaimerOpen
    /\ storedAck' = toString(wallClock)
    /\ disclaimerOpen' = FALSE
    /\ UNCHANGED <<wallClock, appLoaded>>
    /\ UNCHANGED outsideAck

\* window.location.reload(), or the page opened again: the component state
\* starts over, localStorage stays.
hardRefresh ==
    /\ appLoaded
    /\ appLoaded' = FALSE
    /\ disclaimerOpen' = FALSE
    /\ UNCHANGED <<wallClock, storedAck>>
    /\ UNCHANGED outsideAck

\* An hour passes.
PassHour ==
    /\ wallClock < MaxHours
    /\ wallClock' = wallClock + 1
    /\ UNCHANGED <<storedAck, disclaimerOpen, appLoaded>>
    /\ UNCHANGED outsideAck

InitAck ==
    /\ wallClock = 0
    /\ storedAck = NoItem
    /\ disclaimerOpen = FALSE
    /\ appLoaded = FALSE

NextDisclaimer ==
    \/ DisclaimerCheck
    \/ acceptDisclaimer
    \/ hardRefresh
    \/ PassHour

----------------------------------------------------------------------------
(* The service worker: install, activate and fetch handlers *)

CACHE_NAME == "rubix-v2"

\* Caches an earlier version of the site may have left behind.
OldCacheNames == {"rubix-v1", "workbox-precache"}

CacheNames == OldCacheNames \cup {CACHE_NAME}

\* urlsToCache (two of its seven entries)
urlsToCache == {"/", "/index.css"}

AdWords == {"adsterra", "google", "doubleclick", "analytics"}

\* The URLs the page requests, and for each the words of AdWords that
\* url.includes finds in it.
UrlWords ==
    [u \in {"/", "/index.css", "/data/rubix_nifty.json",
            "/assets/analytics-panel.js",
            "https://fonts.googleapis.com/css2",
            "https://www.google-analytics.com/analytics.js",
            "https://pl.adsterra.com/invoke.js",
            "https://ad.doubleclick.net/ddm.js",
            "https://cdn.jsdelivr.net/npm/chart.js"} |->
        CASE u = "/assets/analytics-panel.js" -> {"analytics"}
          [] u = "https://fonts.googleapis.com/css2" -> {"google"}
          [] u = "https://www.google-analytics.com/analytics.js" ->
                {"google", "analytics"}
          [] u = "https://pl.adsterra.com/invoke.js" -> {"adsterra"}
          [] u = "https://ad.doubleclick.net/ddm.js" -> {"doubleclick"}
          [] OTHER -> {}]

Urls == DOMAIN UrlWords

SameOrigin == {"/", "/index.css", "/data/rubix_nifty.json",
               "/assets/analytics-panel.js"}

\* url.includes(word)
Includes(url, word) == word \in UrlWords[url]

Requests == [url : Urls, method : {"GET"}] \cup
            [url : {"/data/rubix_nifty.json"}, method : {"POST"}]

NoResponse == [status |-> 0, type |-> "none", version |-> 0]

\* fetch() rejected.
NetworkFailure == [status |-> 0, type |-> "failure", version |-> 0]

\* The responses fetch() can resolve to for a URL, the n-th the network
\* gives: basic from the site's origin; cors, or opaque with status 0, from
\* another origin.
NetworkResponses(url, n) ==
    IF url \in SameOrigin
       THEN [status : {200, 404}, type : {"basic"}, version : {n}]
       ELSE [status : {200}, type : {"cors"}, version : {n}] \cup
            [status : {0}, type : {"opaque"}, version : {n}]

NoEvent == [pc |-> "none"]

\* install: caches.open(CACHE_NAME) creates the cache, then cache.addAll.
InstallStart ==
    /\ swPhase = "parsed"
    /\ swPhase' = "installing"
    /\ cacheKeys' = cacheKeys \cup {CACHE_NAME}
    /\ UNCHANGED <<cacheEntries, pendingDeletes, fetchEvent>>
    /\ UNCHANGED outsideWorker

\* cache.addAll(urlsToCache) fetched every URL with an ok status.
InstallAddAll ==
    /\ swPhase = "installing"
    /\ swPhase' = "installed"
    /\ cacheEntries' =
          [cacheEntries EXCEPT ![CACHE_NAME] =
              {e \in @ : e.url \notin urlsToCache} \cup
              {[url |-> u,
                response |-> [status |-> 200, type |-> "basic", version |-> 0]]
                 : u \in urlsToCache}]
    /\ UNCHANGED <<cacheKeys, pendingDeletes, fetchEvent>>
    /\ UNCHANGED outsideWorker

\* One of the URLs could not be fetched: addAll rejects, nothing is added
\* and the worker is discarded.
InstallFails ==
    /\ swPhase = "installing"
    /\ swPhase' = "redundant"
    /\ UNCHANGED <<cacheKeys, cacheEntries, pendingDeletes, fetchEvent>>
    /\ UNCHANGED outsideWorker

\* activate: caches.keys() resolves.
ActivateKeys ==
    /\ swPhase = "installed"
    /\ swPhase' = "activating"
    /\ pendingDeletes' = cacheKeys
    /\ UNCHANGED <<cacheKeys, cacheEntries, fetchEvent>>
    /\ UNCHANGED outsideWorker

\* Only the previous version's cache is deleted.
ShouldDeletePrevious(cacheName) == cacheName = "rubix-v1"

\* if (cacheName !== CACHE_NAME)
ShouldDelete(cacheName) == cacheName # CACHE_NAME

\* cacheNames.map: one name is visited and its cache deleted.
ActivateVisit ==
    /\ swPhase = "activating"
    /\ \E cacheName \in pendingDeletes :
          /\ pendingDeletes' = pendingDeletes \ {cacheName}
          /\ IF ShouldDelete(cacheName)
                THEN /\ cacheKeys' = cacheKeys \ {cacheName}
                     /\ cacheEntries' = [cacheEntries EXCEPT ![cacheName] = {}]
                ELSE UNCHANGED <<cacheKeys, cacheEntries>>
    /\ UNCHANGED <<swPhase, fetchEvent>>
    /\ UNCHANGED outsideWorker

\* Promise.all resolves and with it the promise given to waitUntil.
ActivateDone ==
    /\ swPhase = "activating"
    /\ pendingDeletes = {}
    /\ swPhase' = "activated"
    /\ UNCHANGED <<cacheKeys, cacheEntries, pendingDeletes, fetchEvent>>
    /\ UNCHANGED outsideWorker

\* caches.match(request): the entries of the existing caches stored for the
\* request's URL; only GET requests match.
Matches(request) ==
    IF request.method # "GET" THEN {}
    ELSE {e.response : e \in
            {e \in UNION {cacheEntries[n] : n \in cacheKeys} :
                e.url = request.url}}

\* The same test without the ad and tracker exclusion.
ShouldCacheAds(request, networkResponse) ==
    /\ networkResponse # NetworkFailure
    /\ networkResponse.status = 200
    /\ networkResponse.type = "basic"

\* networkResponse && networkResponse.status === 200 &&
\* networkResponse.type === 'basic' && !isAd
ShouldCache(request, networkResponse) ==
    LET url == request.url
        isAd == \/ Includes(url, "adsterra")
                \/ Includes(url, "google")
                \/ Includes(url, "doubleclick")
                \/ Includes(url, "analytics")
    IN  /\ networkResponse # NetworkFailure
        /\ networkResponse.status = 200
        /\ networkResponse.type = "basic"
        /\ ~isAd

\* The network response whenever there is one.
RespondNetworkFirst(cachedResponse, networkResponse) ==
    IF networkResponse # NetworkFailure THEN networkResponse ELSE cachedResponse

\* cachedResponse || fetchPromise
Respond(cachedResponse, networkResponse) ==
    IF cachedResponse # NoResponse THEN cachedResponse ELSE networkResponse

\* A page the worker controls makes a request.
FetchArrives ==
    /\ swPhase = "activated"
    /\ fetchEvent.pc \in {"none", "done"}
    /\ IF fetchEvent.pc = "none" THEN TRUE ELSE fetchEvent.number < MaxFetches
    /\ \E request \in Requests :
          fetchEvent' = [pc |-> "match", request |-> request,
                         number |-> IF fetchEvent.pc = "none" THEN 1
                                    ELSE fetchEvent.number + 1,
                         cachedResponse |-> NoResponse,
                         fetched |-> FALSE,
                         networkResponse |-> NoResponse,
                         response |-> NoResponse]
    /\ UNCHANGED <<swPhase, cacheKeys, cacheEntries, pendingDeletes>>
    /\ UNCHANGED outsideWorker

\* caches.match resolves; its callback calls fetch(event.request).
CacheMatch ==
    /\ fetchEvent.pc = "match"
    /\ \E cachedResponse \in
            IF Matches(fetchEvent.request) = {} THEN {NoResponse}
            ELSE Matches(fetchEvent.request) :
          fetchEvent' = [fetchEvent EXCEPT !.pc = "network",
                                           !.cachedResponse = cachedResponse,
                                           !.fetched = TRUE]
    /\ UNCHANGED <<swPhase, cacheKeys, cacheEntries, pendingDeletes>>
    /\ UNCHANGED outsideWorker

\* fetch settles: the response is put in the cache when ShouldCache allows
\* it (cache.put rejects a request that is not a GET), and the event is
\* answered with the cached response or else with what the network gave.
NetworkSettles ==
    /\ fetchEvent.pc = "network"
    /\ \E networkResponse \in
            NetworkResponses(fetchEvent.request.url, fetchEvent.number)
            \cup {NetworkFailure} :
          /\ fetchEvent' =
                [fetchEvent EXCEPT
                    !.pc = "done",
                    !.networkResponse = networkResponse,
                    !.response = Respond(fetchEvent.cachedResponse,
                                         networkResponse)]
          /\ IF /\ ShouldCache(fetchEvent.request, networkResponse)
                /\ fetchEvent.request.method = "GET"
                THEN /\ cacheKeys' = cacheKeys \cup {CACHE_NAME}
                     /\ cacheEntries' =
                           [cacheEntries EXCEPT ![CACHE_NAME] =
                               {e \in @ : e.url # fetchEvent.request.url} \cup
                               {[url |-> fetchEvent.request.url,
                                 response |-> networkResponse]}]
                ELSE UNCHANGED <<cacheKeys, cacheEntries>>
    /\ UNCHANGED <<swPhase, pendingDeletes>>
    /\ UNCHANGED outsideWorker

\* The caches the browser holds when the worker is registered.
InitWorker(old) ==
    /\ swPhase = "parsed"
    /\ cacheKeys = old
    /\ cacheEntries =
          [n \in CacheNames |->
              IF n \in old
                 THEN {[url |-> "/",
                        response |-> [status |-> 200, type |-> "basic",
                                      version |-> 0]]}
                 ELSE {}]
    /\ pendingDeletes = {}
    /\ fetchEvent = NoEvent

NextWorker ==
    \/ InstallStart
    \/ InstallAddAll
    \/ InstallFails
    \/ ActivateKeys
    \/ ActivateVisit
    \/ ActivateDone
    \/ FetchArrives
    \/ CacheMatch
    \/ NetworkSettles

----------------------------------------------------------------------------
(* build_features: the streak columns over every short history *)

\* Closes a step or two apart: a day's return is positive, negative or zero.
ShortCloses == {100, 101, 102}

\* A history of Len(closes) days closing at closes.
ShortFrame(closes) ==
    [Date   |-> [i \in 1..Len(closes) |-> i],
     Open   |-> closes,
     High   |-> closes,
     Low    |-> closes,
     Close  |-> closes,
     Volume |-> [i \in 1..Len(closes) |-> 10]]

\* The streak block of build_features: return_1d, up_day, down_day and
\* streak of every row, as they are before dropna().
StreakColumns ==
    /\ featPc = "data"
    /\ features_df' =
          [i \in 1..Rows(nifty_df) |->
              [Date |-> nifty_df.Date[i],
               return_1d |-> return_1d(nifty_df, i),
               up_day |-> up_day(nifty_df, i),
               down_day |-> down_day(nifty_df, i),
               streak |-> streak(nifty_df, i)]]
    /\ featPc' = "built"
    /\ UNCHANGED <<nifty_df, vix_df, trainFrame>>
    /\ UNCHANGED outsideFeatures

InitShortFeatures ==
    /\ \E closes \in UNION {[1..n -> ShortCloses] : n \in 1..MaxShortDays} :
          /\ nifty_df = ShortFrame(closes)
          /\ vix_df = [d \in 1..Len(closes) |-> 15]
    /\ features_df = NoFeatures
    /\ trainFrame = NoTrainFrame
    /\ featPc = "data"

NextStreak == StreakColumns

----------------------------------------------------------------------------
(* What the bundles hold and what run_inference reads *)

\* feature_cols of train_rf_reversal, train_xgb_momentum, train_qr_range and
\* train_gbm_divergence, in the order they are written.
feature_cols(file) ==
    CASE file = "rf_reversal" ->
            <<"streak", "rsi_14", "bb_position", "macd_histogram",
              "volatility_20d", "vix", "vix_percentile", "atr_pct",
              "volume_ratio", "price_vs_sma20">>
      [] file = "xgb_momentum" ->
            <<"rsi_14", "macd", "macd_histogram", "bb_position", "return_1d",
              "return_5d", "return_20d", "volatility_10d", "volatility_20d",
              "atr_pct", "volume_ratio", "price_vs_sma20", "price_vs_sma50",
              "vix", "vix_percentile", "vix_term_structure">>
      [] file = "qr_range" ->
            <<"atr_pct", "volatility_10d", "volatility_20d", "vix",
              "vix_percentile", "volume_ratio", "bb_position", "rsi_14">>
      [] file = "gbm_divergence" ->
            <<"rsi_14", "macd", "macd_histogram", "return_5d", "return_20d",
              "bb_position", "volume_ratio">>

\* The columns train_hmm_regime takes its observations from.
HmmObservations == <<"return_1d", "volatility_20d">>

\* The dict each train_* function hands to joblib.dump.
Bundle(file) ==
    CASE file = "hmm_regime" ->
            [model |-> "GaussianHMM", state_labels |-> "state_labels",
             scaler_mean |-> "observations.mean", scaler_std |-> "observations.std"]
      [] file = "rf_reversal" ->
            [model |-> "RandomForestClassifier", feature_cols |-> feature_cols(file)]
      [] file = "xgb_momentum" ->
            [model |-> "XGBClassifier", feature_cols |-> feature_cols(file)]
      [] file = "qr_range" ->
            [models |-> "QuantileRegressor", feature_cols |-> feature_cols(file)]
      [] file = "gbm_divergence" ->
            [model |-> "GradientBoostingClassifier", feature_cols |-> feature_cols(file)]

\* The bundles run_inference predicts with: gbm_divergence is loaded and
\* never used.
PredictedWith == {"hmm_regime", "rf_reversal", "xgb_momentum", "qr_range"}

\* The columns run_inference reads from the latest feature row for the
\* bundle: latest[['return_1d', 'volatility_20d']] for the HMM,
\* latest[bundle['feature_cols']] for the others.
InputColumns(file) ==
    IF file = "hmm_regime" THEN <<"return_1d", "volatility_20d">>
    ELSE Bundle(file).feature_cols

----------------------------------------------------------------------------
(* The specifications *)

InitFormulas ==
    /\ kellyCall = NoKellyCall
    /\ returns = EmptySample
    /\ varCall = NoVarCall

InitClient ==
    /\ InitDash
    /\ InitAck
    /\ InitWorker({})

InitServer ==
    /\ InitPipeline
    /\ InitFormulas
    /\ InitFeatures(0)
    /\ InitTiles
    /\ InitCron

\* The browser may hold caches of earlier versions of the site.
InitBrowsers ==
    /\ InitServer
    /\ InitDash
    /\ InitAck
    /\ \E old \in SUBSET OldCacheNames : InitWorker(old)

Init ==
    /\ InitPipeline
    /\ InitFormulas
    /\ InitFeatures(0)
    /\ InitTiles
    /\ InitCron
    /\ InitClient

InitHistories ==
    /\ InitPipeline
    /\ InitFormulas
    /\ \E s \in 0..MaxSeed : InitFeatures(s)
    /\ InitTiles
    /\ InitCron
    /\ InitClient

NextKelly ==
    \/ KellyRegimeAdjustedCall
    \/ KellyCriterionCall

NextVaR ==
    \/ RecordReturn
    \/ CalculateVarCvar

SpecPipeline == Init /\ [][NextPipeline]_vars

SpecKelly == Init /\ [][NextKelly]_vars

SpecVaR == Init /\ [][NextVaR]_vars

SpecFeatures == InitHistories /\ [][NextFeatures]_vars

SpecTiles == Init /\ [][NextTiles]_vars

SpecCron == Init /\ [][NextCron]_vars

InitShortHistories ==
    /\ InitPipeline
    /\ InitFormulas
    /\ InitShortFeatures
    /\ InitTiles
    /\ InitCron
    /\ InitClient

SpecStreak == InitShortHistories /\ [][NextStreak]_vars

SpecDashboard == Init /\ [][NextDashboard]_vars

\* The mount effect runs once the first render is committed; every fetch
\* that was started settles, and a settled await resumes.
SpecDashboardFair ==
    /\ SpecDashboard
    /\ WF_vars(Mount)
    /\ WF_vars(SettleLoad)
    /\ WF_vars(ResumeRefresh)

SpecDisclaimer == Init /\ [][NextDisclaimer]_vars

SpecWorker == InitBrowsers /\ [][NextWorker]_vars

----------------------------------------------------------------------------
(* Properties of the pipeline, checked under SpecPipeline *)

\* The inference process has loaded all five bundles.
ModelsLoaded == inferPc \in {"prepare", "predict", "save", "done"}

\* The inference process takes this step.
InferenceSteps == <<inferPc, inferStep, inferRun>>' # <<inferPc, inferStep, inferRun>>

\* C1: whatever the interleaving of a training run and an inference run, the
\* five bundles the inference run has loaded were all written by one and the
\* same training run (and each was whole when loaded).
C1_LoadedBundlesOfOneTrainingRun ==
    ModelsLoaded =>
        \E r \in 1..MaxTrainRuns : \A b \in BundleNames : models[b] = r

\* C2: when fitting or persisting a model has failed, models/ is as it was
\* before the run started: no file in it was written by the failed run.
C2_FailedRunLeavesNoBundle ==
    trainPc = "failed" => \A b \in BundleNames : modelsDir[b].run # trainRun

\* C3: a load that meets a bundle that is absent or not whole aborts the run
\* without touching omega_vault.json; an aborted run writes nothing later;
\* and omega_vault.json is only ever written by a run that loaded all five.
C3_MissingBundleAbortsBeforeOutput ==
    [][ /\ ( /\ inferPc = "load"
             /\ InferenceSteps
             /\ \/ modelsDir[TrainOrder[inferStep]].run = 0
                \/ ~modelsDir[TrainOrder[inferStep]].complete )
           => (inferPc' = "aborted" /\ snapshot' = snapshot)
        /\ (inferPc = "aborted" => snapshot' = snapshot)
        /\ (snapshot' # snapshot => \A b \in BundleNames : models[b] # 0)
      ]_vars

\* C3 witness: a run aborted at load time while an earlier run's snapshot is
\* still the one on disk.
C3_Witness ==
    /\ inferPc = "aborted"
    /\ inferError = "load"
    /\ snapshot.run # 0
    /\ snapshot.run < inferRun
    /\ \E b \in BundleNames : ~modelsDir[b].complete

\* C4: a member whose predict failed does not end the run: the run goes on
\* to write a snapshot that marks that member unavailable and holds the
\* prediction of every other member.
C4_PredictFailureDegrades ==
    (\E m \in Members : results[m] = "failed") =>
        /\ inferPc # "aborted"
        /\ inferPc = "done" =>
              /\ snapshot.run = inferRun
              /\ \A m \in Members :
                    snapshot.predictions[m] =
                        IF results[m] = "failed" THEN "failed" ELSE "ok"

\* C5: the snapshot is composed only once each of the five members has
\* produced a prediction or a failure.
C5_AllFiveBeforeSnapshot ==
    /\ inferPc = "save" => \A m \in Members : results[m] \in {"ok", "failed"}
    /\ snapshot.run # 0 =>
          \A m \in Members : snapshot.predictions[m] \in {"ok", "failed"}

----------------------------------------------------------------------------
(* Properties of the Kelly formulas, checked under SpecKelly *)

\* C8: for every win rate in [0, 1], average win > 0, average loss (0
\* included) and regime, the position size returned lies in [0, 0.25].
C8_KellyWithinBounds ==
    kellyCall.fn # "none" =>
        /\ RatLe(RatInt(0), kellyCall.out)
        /\ RatLe(kellyCall.out, Rat(1, 4))

\* C8 witness: a call with average loss 0 and a sure win, whose uncapped
\* fraction is 1, has returned the cap.
C8_Witness ==
    /\ kellyCall.fn = "kelly_regime_adjusted"
    /\ kellyCall.avg_loss = RatInt(0)
    /\ kellyCall.win_rate = RatInt(1)
    /\ kellyCall.regime = "TRENDING"
    /\ kellyCall.out = Rat(1, 4)

\* f* = p - q / b, which is (p * b - q) / b, for the call recorded; b is the
\* ratio of the average win to the magnitude of the average loss, and 1
\* when the average loss is 0.
CallFStar ==
    LET p == kellyCall.win_rate
        q == RatSub(RatInt(1), p)
        l == RatAbs(kellyCall.avg_loss)
    IN  IF l[1] = 0
           THEN RatSub(p, q)
           ELSE RatSub(p, RatDiv(RatMul(q, l), kellyCall.avg_win))

CallRegimeFactor ==
    CASE kellyCall.regime = "CHAOTIC" -> Rat(1, 2)
      [] kellyCall.regime = "MEAN_REVERTING" -> Rat(4, 5)
      [] kellyCall.regime = "TRENDING" -> RatInt(1)

\* C9 as stated: the regime-adjusted size is f* clipped to [0, 0.25] and
\* then multiplied by the regime factor.
C9_ClipThenRegimeFactor ==
    (kellyCall.fn = "kelly_regime_adjusted" /\ kellyCall.avg_loss # RatInt(0)) =>
        kellyCall.out =
            RatMul(Clip(CallFStar, RatInt(0), Rat(1, 4)), CallRegimeFactor)

\* C9 as amended: the regime-adjusted size is f* multiplied by the regime
\* factor and then clipped to [0, 0.25] (b = 1 when the average loss is 0).
C9_RegimeFactorThenClip ==
    kellyCall.fn = "kelly_regime_adjusted" =>
        kellyCall.out =
            Clip(RatMul(CallFStar, CallRegimeFactor), RatInt(0), Rat(1, 4))

\* C9 witness: a chaotic-regime call whose f* exceeds the cap while half of
\* it does not: the order of the two steps shows in the result.
C9_Witness ==
    /\ kellyCall.fn = "kelly_regime_adjusted"
    /\ kellyCall.regime = "CHAOTIC"
    /\ kellyCall.avg_loss # RatInt(0)
    /\ RatLt(Rat(1, 4), CallFStar)
    /\ RatLt(kellyCall.out, Rat(1, 4))
    /\ kellyCall.out # Rat(1, 8)

----------------------------------------------------------------------------
(* Properties of VaR / CVaR, checked under SpecVaR *)

\* C10: for a sample of at least 30 returns and any confidence level, with
\* VaR the (1 - c) percentile and CVaR the mean of the returns at or below
\* VaR, CVaR <= VaR.
C10_CVaRAtMostVaR ==
    (varCall.fn # "none" /\ varCall.n >= 30) => RatLe(varCall.cvar, varCall.var)

\* C10 witness: a 95% call on 30 or more returns whose VaR falls strictly
\* between two sample values and whose CVaR is strictly below it.
C10_Witness ==
    /\ varCall.fn = "calculate_var_cvar"
    /\ varCall.n >= 30
    /\ varCall.confidence = Rat(95, 100)
    /\ varCall.var[2] # 1
    /\ RatLt(varCall.cvar, varCall.var)

----------------------------------------------------------------------------
(* Feature rows and labels against the data they may depend on *)

\* The index of the bar dated d.
RowIndex(df, d) == CHOOSE i \in 1..Rows(df) : df.Date[i] = d

\* The row dated d of a feature frame: one row, or none when it was dropped.
RowFor(features, d) ==
    LET ks == {k \in 1..Len(features) : features[k].Date = d}
    IN  IF ks = {} THEN <<>> ELSE <<features[CHOOSE k \in ks : TRUE]>>

\* The row build_features gives bar i when run on the data as it was on that
\* bar's date: every bar and every VIX close dated later removed.
PastRow(i) ==
    LET df == TruncateFrame(nifty_df, i)
        vixdf == TruncateSeries(vix_df, nifty_df.Date[i])
    IN  IF HasNaN(df, vixdf, i) THEN <<>> ELSE <<FeatureRow(df, vixdf, i)>>

\* C6: for every date d, the row build_features produces for d (every column
\* of it, and whether the row exists at all) is the row it produces from the
\* entries dated at or before d alone; so two inputs that agree on all
\* entries dated at or before d give the same row for d, whatever is dated
\* after d.
C6_NoLookahead ==
    featPc = "built" =>
        \A i \in 1..Rows(nifty_df) :
            RowFor(features_df, nifty_df.Date[i]) = PastRow(i)

\* C6's case: features were built from data that has a bar and a VIX close
\* dated after the date of one of the rows, and the bar before them went
\* without a VIX close of its own.
C6_Witness ==
    /\ featPc = "built"
    /\ \E k \in 1..Len(features_df) :
          LET d == features_df[k].Date
          IN  /\ d > HistoryDays
              /\ d \notin DOMAIN vix_df
              /\ d < nifty_df.Date[Rows(nifty_df)]
              /\ \E e \in DOMAIN vix_df : e > d

\* C7: for each supervised member, the label of the training row dated d is
\* derived from data dated after d (the data up to d gives the member no
\* training row for d), and the features of that row are those derived from
\* the data up to d.
C7_LabelsFromLaterData ==
    featPc = "labelled" /\ trainFrame.member \in SupervisedMembers =>
        \A n \in 1..Len(trainFrame.rows) :
            LET row == trainFrame.rows[n]
                i == RowIndex(nifty_df, row.Date)
                pastFeatures == build_features(TruncateFrame(nifty_df, i),
                                               TruncateSeries(vix_df, row.Date))
                pastSet == TrainingSet(trainFrame.member, pastFeatures)
            IN  /\ \A m \in 1..Len(pastSet) : pastSet[m].Date # row.Date
                /\ PastRow(i) # <<>>
                /\ row.X = Project(PastRow(i)[1], MemberCols(trainFrame.member))

----------------------------------------------------------------------------
(* The range quantiles in the snapshot *)

\* C11: whatever the quantile models predict and whatever the skew, the
\* range written to the snapshot has Q10 <= Q50 <= Q90.
C11_QuantilesOrdered ==
    tile.fn = "range" =>
        /\ RatLe(tile.out["q10"], tile.out["q50"])
        /\ RatLe(tile.out["q50"], tile.out["q90"])

\* The distances the skew adjustment is about, before (from the quantile
\* models' predictions) and after (in the snapshot).
RawQuantile(q) == RatMul(tile.preds[q], RatInt(tile.live_price))
RawUpperDistance == RatSub(RawQuantile("q90"), RawQuantile("q50"))
RawLowerDistance == RatSub(RawQuantile("q50"), RawQuantile("q10"))
UpperDistance == RatSub(tile.out["q90"], tile.out["q50"])
LowerDistance == RatSub(tile.out["q50"], tile.out["q10"])
SkewThreshold == Rat(1, 2)
SkewMultiplier == Rat(12, 10)

\* C12: the range in the snapshot is the quantile predictions with the upper
\* distance Q90 - Q50 times 1.2 when skew > 0.5, the lower distance
\* Q50 - Q10 times 1.2 when skew < -0.5, and Q50 and the other distance as
\* predicted; for skew in [-0.5, 0.5] all three are as predicted.
C12_SkewAdjustment ==
    tile.fn = "range" =>
        /\ tile.out["q50"] = RawQuantile("q50")
        /\ UpperDistance =
              IF RatLt(SkewThreshold, tile.skew)
                 THEN RatMul(SkewMultiplier, RawUpperDistance)
                 ELSE RawUpperDistance
        /\ LowerDistance =
              IF RatLt(tile.skew, RatSub(RatInt(0), SkewThreshold))
                 THEN RatMul(SkewMultiplier, RawLowerDistance)
                 ELSE RawLowerDistance

----------------------------------------------------------------------------
(* The reversal probability *)

\* C13: for a streak of more than 5 days, up or down, the adjusted reversal
\* probability is p * 0.85^(streak length - 5), strictly less than p when
\* p > 0; for a streak of 5 days or fewer it is p.
C13_StreakPenalty ==
    tile.fn = "reversal" =>
        LET length == IntAbs(tile.streak)
            p == tile.rev_prob
        IN  IF length > 5
               THEN /\ tile.out = RatMul(p, RatPow(Rat(85, 100), length - 5))
                    /\ RatLt(RatInt(0), p) => RatLt(tile.out, p)
               ELSE tile.out = p

----------------------------------------------------------------------------
(* The regime labels *)

\* C14: whatever the three fitted volatility means, the three states carry
\* TRENDING, MEAN_REVERTING and CHAOTIC each exactly once, in ascending
\* order of volatility mean: no state has a lower mean than the TRENDING
\* one and none a higher mean than the CHAOTIC one.
C14_LabelsByVolatility ==
    tile.fn = "regime" =>
        /\ \A label \in Regimes :
              Cardinality({i \in 1..3 : tile.state_labels[i] = label}) = 1
        /\ \A i, j \in 1..3 :
              /\ tile.state_labels[i] = "TRENDING" => tile.vol_means[i] <= tile.vol_means[j]
              /\ tile.state_labels[i] = "CHAOTIC" => tile.vol_means[i] >= tile.vol_means[j]

----------------------------------------------------------------------------
(* The traffic light *)

----------------------------------------------------------------------------
(* The FOMO meter *)

\* C16: for every RSI in [0, 100] and every position of the price against
\* the Bollinger bands the gauge gives one of the four categories, and gives
\* it by the rule: extreme-high for RSI above 75 or a price above the upper
\* band, elevated for RSI 65-75, neutral for RSI 25-65, extreme-low for RSI
\* below 25 or a price below the lower band.
C16_FomoCategory ==
    tile.fn = "fomo" =>
        /\ tile.out \in {"EXTREME FOMO", "HIGH RISK", "NEUTRAL", "EXTREME PANIC"}
        /\ tile.out = "EXTREME FOMO" => tile.rsi > 75 \/ tile.bb = "above upper"
        /\ tile.out = "HIGH RISK" => tile.rsi >= 65 /\ tile.rsi <= 75
        /\ tile.out = "NEUTRAL" => tile.rsi >= 25 /\ tile.rsi <= 65
        /\ tile.out = "EXTREME PANIC" => tile.rsi < 25 \/ tile.bb = "below lower"

----------------------------------------------------------------------------
(* The overall verdict *)

\* C17: every sub-signal is counted as exactly one of bullish, bearish and
\* neutral, so bullishSignals + bearishSignals <= totalSignals; the stance
\* is a category no other has a higher count than, bullish only when the
\* bullish count exceeds the bearish count and bearish only when the bearish
\* count exceeds the bullish count.
C17_VerdictTally ==
    tile.fn = "verdict" =>
        LET v == tile.out
            neutral == v.totalSignals - v.bullishSignals - v.bearishSignals
        IN  /\ v.bullishSignals + v.bearishSignals <= v.totalSignals
            /\ neutral = Cardinality({k \in SubSignals : tile.signals[k] = "neutral"})
            /\ v.stance = "BULLISH" =>
                  v.bullishSignals > v.bearishSignals /\ v.bullishSignals >= neutral
            /\ v.stance = "BEARISH" =>
                  v.bearishSignals > v.bullishSignals /\ v.bearishSignals >= neutral
            /\ v.stance = "NEUTRAL" =>
                  ~(v.bullishSignals > v.bearishSignals /\ v.bullishSignals > neutral)
                  /\ ~(v.bearishSignals > v.bullishSignals /\ v.bearishSignals > neutral)

\* C17's case: as many bullish as bearish sub-signals, more of each than
\* neutral ones, and a stance that is neither bullish nor bearish.
C17_Witness ==
    /\ tile.fn = "verdict"
    /\ tile.out.bullishSignals = 2
    /\ tile.out.bearishSignals = 2
    /\ tile.out.stance = "NEUTRAL"

----------------------------------------------------------------------------
(* The momentum score *)

\* C18: the momentum score is the predicted probability as an integer from
\* 0 to 100, and the strength is strong (HIGH) iff score > 70, moderate
\* (MEDIUM) iff 50 <= score <= 70, weak (LOW) iff score < 50.
C18_MomentumBands ==
    tile.fn = "momentum" =>
        LET score == tile.out.score
        IN  /\ score \in 0..100
            /\ RatLe(RatInt(score), RatMul(tile.mom_prob, RatInt(100)))
            /\ RatLt(RatMul(tile.mom_prob, RatInt(100)), RatInt(score + 1))
            /\ tile.out.strength = "HIGH" <=> score > 70
            /\ tile.out.strength = "MEDIUM" <=> score >= 50 /\ score <= 70
            /\ tile.out.strength = "LOW" <=> score < 50

----------------------------------------------------------------------------
(* Training on a short history *)

\* C19: a training run whose feature table has fewer than 500 rows fails
\* and persists no model bundle: no file in models/ is written by it and it
\* does not complete.
C19_ShortHistoryFails ==
    trainPc \in {"fit", "dump", "writing", "done", "failed"} /\ trainSamples < 500 =>
        /\ \A b \in BundleNames : modelsDir[b].run # trainRun
        /\ trainPc # "done"

----------------------------------------------------------------------------
(* The inference schedule *)

\* Indian Standard Time is UTC + 5:30.
Ist(t) == (t + 5 * 60 + 30) % MinutesPerWeek
IstTimeOfDay(t) == Ist(t) % MinutesPerDay
IstDay(t) == Ist(t) \div MinutesPerDay
MarketOpen == 9 * 60 + 15
MarketClose == 15 * 60 + 30

\* C20: every scheduled inference run starts on a weekday between 09:15 and
\* 15:30 IST, and 30 minutes after the scheduled run before it when that one
\* was on the same day.
C20_RunsInsideMarketHours ==
    lastStart # -1 =>
        /\ IstDay(lastStart) \in 1..5
        /\ IstTimeOfDay(lastStart) >= MarketOpen
        /\ IstTimeOfDay(lastStart) <= MarketClose
        /\ prevStart # -1 /\ IstDay(prevStart) = IstDay(lastStart) =>
              lastStart - prevStart = 30

----------------------------------------------------------------------------
(* Properties of the dashboard's data loads *)

\* The JSON has both tiles and hero: each is there with an object as value.
HasTilesAndHero(outcome) ==
    /\ outcome.kind = "response"
    /\ outcome.ok
    /\ outcome.json.parse = "object"
    /\ outcome.json.tiles = "object"
    /\ outcome.json.hero = "object"

\* C21: getMarketDataAsync(index) never rejects and never resolves to null:
\* it resolves to the state built from the JSON when the fetch ends with an
\* OK response whose JSON has both tiles and hero, and to mock data with the
\* requested index as indexName in every other case.
C21_AlwaysResolvesToData ==
    \A l \in loads :
        l.promise # Pending =>
            /\ l.promise.state = "fulfilled"
            /\ l.promise.value # NullData
            /\ IF HasTilesAndHero(l.outcome)
                  THEN l.promise.value.source = "json"
                  ELSE l.promise.value = [source |-> "mock", indexName |-> l.index]

\* One load has settled on the fallback after an OK response whose JSON
\* lacks hero, and one on the state built from the JSON.
C21_Witness ==
    /\ \E l \in loads : l.promise # Pending /\ l.outcome.kind = "response"
                        /\ l.outcome.ok /\ l.outcome.json.parse = "object"
                        /\ l.outcome.json.hero # "object"
                        /\ l.promise.value.source = "mock"
    /\ \E l \in loads : l.promise # Pending /\ HasTilesAndHero(l.outcome)
                        /\ l.promise.value.source = "json"

C30_LoadingEnds == (data = NullData) ~> (data # NullData)

\* The index was switched, and the data came back.
C30_Witness == refreshes = MaxRefreshes /\ loads = {} /\ data # NullData

----------------------------------------------------------------------------
(* Properties of the disclaimer *)

\* The time the stored acknowledgement was written at.
AckTime == CHOOSE t \in 0..(MaxHours + 1) : toString(t) = storedAck

\* C28: on load the disclaimer opens iff no acknowledgement is stored or more
\* than 48 hours have passed since the stored one; accepting stores the
\* current time and closes the modal.
C28_DisclaimerEvery48Hours ==
    [][/\ (~appLoaded /\ appLoaded') =>
              (disclaimerOpen' <=>
                  (storedAck = NoItem \/ wallClock - AckTime > 48))
       /\ (disclaimerOpen /\ appLoaded') =>
              \/ disclaimerOpen' /\ storedAck' = storedAck
              \/ ~disclaimerOpen' /\ storedAck' = toString(wallClock)]_vars

\* A page load has reopened the disclaimer after an earlier acknowledgement.
C28_Witness == appLoaded /\ disclaimerOpen /\ storedAck # NoItem

----------------------------------------------------------------------------
(* Properties of the service worker *)

\* C25: the fetch handler stores a network response only if its status is
\* 200, its type is basic and the request URL contains none of 'adsterra',
\* 'google', 'doubleclick', 'analytics': the cache holds nothing else but the
\* install list.
C25_CacheHoldsOnlyAllowed ==
    \A e \in cacheEntries["rubix-v2"] :
        \/ e.url \in urlsToCache /\ e.response.version = 0
        \/ /\ e.response.status = 200
           /\ e.response.type = "basic"
           /\ UrlWords[e.url] \cap
                 {"adsterra", "google", "doubleclick", "analytics"} = {}

\* The handler has stored a response, and has answered a request for a
\* same-origin URL containing 'analytics' with a 200 it did not store.
C25_Witness ==
    /\ \E e \in cacheEntries["rubix-v2"] : e.response.version > 0
    /\ fetchEvent.pc = "done"
    /\ fetchEvent.request.url = "/assets/analytics-panel.js"
    /\ fetchEvent.networkResponse.status = 200
    /\ \A e \in cacheEntries["rubix-v2"] : e.url # "/assets/analytics-panel.js"

\* C26: every fetch event issues a network request and is answered with the
\* cached response when there is one, else with what the network gave; a
\* network failure does not keep a cached response from being returned.
C26_StaleWhileRevalidate ==
    fetchEvent.pc = "done" =>
        /\ fetchEvent.fetched
        /\ IF fetchEvent.cachedResponse # NoResponse
              THEN fetchEvent.response = fetchEvent.cachedResponse
              ELSE fetchEvent.response = fetchEvent.networkResponse

\* A request was answered from the cache although the network failed.
C26_Witness ==
    /\ fetchEvent.pc = "done"
    /\ fetchEvent.cachedResponse # NoResponse
    /\ fetchEvent.networkResponse = NetworkFailure
    /\ fetchEvent.response = fetchEvent.cachedResponse

\* C27: when the activate handler has completed, every cache with another
\* name than 'rubix-v2' is deleted and 'rubix-v2' is not.
C27_OnlyCurrentCacheLeft ==
    swPhase = "activated" =>
        /\ cacheKeys = {"rubix-v2"}
        /\ \A u \in urlsToCache : \E e \in cacheEntries["rubix-v2"] : e.url = u

\* Activation has completed in a browser that held two older caches.
C27_Witness ==
    /\ swPhase = "activated"
    /\ fetchEvent = NoEvent
    /\ \A n \in OldCacheNames : cacheEntries[n] = {} /\ n \notin cacheKeys

----------------------------------------------------------------------------
(* Properties of the streak and vix columns *)

\* The sign of day i's return: 1, -1, or 0 when the return is zero or the day
\* has no day before it.
ReturnSign(closes, i) ==
    IF i < 2 THEN 0
    ELSE IF closes[i] > closes[i - 1] THEN 1
    ELSE IF closes[i] < closes[i - 1] THEN -1
    ELSE 0

\* The length of the longest run of days ending at day i whose returns all
\* have the sign of day i's.
RunLength(closes, i) ==
    CHOOSE k \in 1..i :
        /\ \A j \in (i - k + 1)..i : ReturnSign(closes, j) = ReturnSign(closes, i)
        /\ k < i => ReturnSign(closes, i - k) # ReturnSign(closes, i)

\* C22: the streak at day d is +k when d ends a run of exactly k days of
\* positive return, -k when it ends a run of exactly k days of negative
\* return, and 0 when d's return is zero or undefined.
C22_StreakCountsRuns ==
    featPc = "built" =>
        \A i \in 1..Len(features_df) :
            features_df[i].streak =
                ReturnSign(nifty_df.Close, i) * RunLength(nifty_df.Close, i)

\* A history of two up days, a flat day and two down days.
C22_Witness ==
    /\ featPc = "built"
    /\ Len(features_df) = 6
    /\ features_df[1].return_1d = NaN
    /\ features_df[3].streak = 2
    /\ features_df[4].streak = 0
    /\ features_df[6].streak = -2

\* The close of the latest VIX reading dated at or before date d, whether or
\* not the index traded on the reading's date.
LatestReading(d) ==
    LET dates == {x \in DOMAIN vix_df : x <= d}
    IN  IF dates = {} THEN NaN
        ELSE Num(vix_df[CHOOSE x \in dates : \A y \in dates : y <= x])

\* C23: every feature row's vix is the level of the latest VIX reading dated
\* at or before the row's date, readings on dates without a price bar
\* included.
C23_VixIsLatestReading ==
    featPc = "built" =>
        \A k \in 1..Len(features_df) :
            features_df[k].vix = LatestReading(features_df[k].Date)

----------------------------------------------------------------------------
(* Properties of the bundles' contents *)

\* C24: every persisted bundle holds the ordered list of the feature columns
\* it was fitted on, and the prediction with it reads exactly those columns,
\* in that order, from the latest feature row.
C24_BundleNamesItsColumns ==
    \A file \in BundleNames :
        modelsDir[file].complete =>
            /\ "feature_cols" \in DOMAIN Bundle(file)
            /\ file \in PredictedWith =>
                  InputColumns(file) = Bundle(file).feature_cols

====
